---- MODULE Spec2Model ----
(***************************************************************************)
(* Model of the dashboard's in-memory stores (BotRegistry, MetricStore),   *)
(* the two RwLocks of AppState that guard them, the request handlers that  *)
(* use them and the background pruner.                                     *)
(*                                                                         *)
(* Time is counted in days: DATA_RETENTION is Duration::days(7).           *)
(***************************************************************************)
EXTENDS Integers, Sequences, FiniteSets, Bags, TLC

\* ------------------------------------------------------------------ bounds
MaxTime == 8
MaxHist == 2
MaxEvents == 1
MaxStored == 3
MaxChartEvents == 3

\* ------------------------------------------------------- program constants
DATA_RETENTION == 7

Names == {"bot1", "bot2"}
Handlers == {"h1", "h2"}
Pruner == "pruner"
Tasks == Handlers \cup {Pruner}

\* retention windows passed to prune_heartbeat_history by a direct caller
Retentions == {0, 1, DATA_RETENTION}

\* Option<T>: None is <<>>, Some(x) is <<x>>
None == <<>>
Some(x) == <<x>>

VARIABLES
    now,        \* Utc::now(), in days
    bots,       \* BotRegistry.bots: name -> BotInfo
    created,    \* history variable: when each record that has no heartbeat yet was inserted
    hbFiles,    \* data/heartbeats: name -> the lines of <name>.jsonl
    metrics,    \* MetricStore.metrics: name -> sequence of MetricEvent
    mFiles,     \* data/metrics: name -> the lines of <name>.jsonl
    lastIo,     \* history variable: the storage calls of the last store call
    ret,        \* history variable: the last observed store call and what it returned
    disk,       \* the volume of the data directories: "ok", "failing" or "recovered"
    tokens,     \* CancellationRegistry.tokens: channel -> its watch channel
    watch,      \* the watch channels made so far: [value, receivers]
    pc,         \* task -> where it is in its handler
    arg,        \* task -> the request it serves
    registryLock, \* AppState.registry's RwLock: [writers, readers, poisoned]
    metricsLock,  \* AppState.metrics' RwLock: [writers, readers, poisoned]
    regDone,    \* history variable: task -> it released the registry lock in this request
    staleNames, \* the pruner's local stale_names
    cycleRemoved \* history variable: names the current prune cycle removed from the registry

storeVars == <<bots, created, hbFiles, metrics, mFiles, lastIo, ret, disk, tokens, watch>>
taskVars == <<pc, arg, registryLock, metricsLock, regDone, staleNames, cycleRemoved>>
vars == <<now, bots, created, hbFiles, metrics, mFiles, lastIo, ret, disk, tokens, watch, pc, arg,
          registryLock, metricsLock, regDone, staleNames, cycleRemoved>>

\* ------------------------------------------------------------ HashMap
EmptyMap == [x \in {} |-> 0]
Put(m, k, v) == [x \in (DOMAIN m) \cup {k} |-> IF x = k THEN v ELSE m[x]]
Del(m, k) == [x \in (DOMAIN m) \ {k} |-> m[x]]

\* ------------------------------------------------------------ storage
\* one storage call, as recorded in lastIo
IoCall(op, key, lines) == [op |-> op, key |-> key, lines |-> lines]

\* A storage call returns Err when the volume fails, and then leaves the file as
\* it was; the stores print the error and go on.
io_fails == disk = "failing"

append_line(files, name, record) ==
    IF io_fails THEN files
    ELSE Put(files, name, IF name \in DOMAIN files THEN Append(files[name], record)
                          ELSE <<record>>)

remove_bot_file(files, name) == IF io_fails THEN files ELSE Del(files, name)

rewrite_lines(files, name, records) == IF io_fails THEN files ELSE Put(files, name, records)

\* load_lines of a bot without a file yields no record
load_lines(files, name) == IF name \in DOMAIN files THEN files[name] ELSE <<>>

\* ------------------------------------------------------------ BotRegistry
\* A registry value: the map, its data directory and the storage calls made.
Reg(b, f, io) == [bots |-> b, files |-> f, io |-> io]

BotInfo(last, hist) == [last_heartbeat |-> last, heartbeat_history |-> hist]

\* self.bots.entry(name).or_insert_with(|| BotInfo { last_heartbeat: now, history: [] })
or_insert(b, name, t) == IF name \in DOMAIN b THEN b ELSE Put(b, name, BotInfo(t, <<>>))

\* mutant: the heartbeat is pushed at the front of the history
log_heartbeat_push_front(R, name, t) ==
    LET b1 == or_insert(R.bots, name, t)
        info == BotInfo(t, <<t>> \o b1[name].heartbeat_history)
    IN  Reg(Put(b1, name, info),
            append_line(R.files, name, t),
            R.io (+) SetToBag({IoCall("append", name, <<t>>)}))

\* mutant: last_heartbeat is set only when the record is created
log_heartbeat_keeps_last(R, name, t) ==
    LET b1 == or_insert(R.bots, name, t)
        info == BotInfo(b1[name].last_heartbeat, Append(b1[name].heartbeat_history, t))
    IN  Reg(Put(b1, name, info),
            append_line(R.files, name, t),
            R.io (+) SetToBag({IoCall("append", name, <<t>>)}))

\* mutant: the whole history is written again instead of one appended line
log_heartbeat_rewrites(R, name, t) ==
    LET b1 == or_insert(R.bots, name, t)
        info == BotInfo(t, Append(b1[name].heartbeat_history, t))
    IN  Reg(Put(b1, name, info),
            rewrite_lines(R.files, name, info.heartbeat_history),
            R.io (+) SetToBag({IoCall("rewrite", name, info.heartbeat_history)}))

log_heartbeat(R, name, t) ==
    LET b1 == or_insert(R.bots, name, t)
        info == BotInfo(t, Append(b1[name].heartbeat_history, t))
    IN  Reg(Put(b1, name, info),
            append_line(R.files, name, t),
            R.io (+) SetToBag({IoCall("append", name, <<t>>)}))

\* mutant: an existing record's last_heartbeat is refreshed
ensure_registered_refreshes(R, name, t) ==
    LET b1 == or_insert(R.bots, name, t)
    IN  Reg(Put(b1, name, BotInfo(t, b1[name].heartbeat_history)), R.files, R.io)

\* mutant: a new record is stamped with the epoch instead of now
ensure_registered_epoch(R, name, t) == Reg(or_insert(R.bots, name, 0), R.files, R.io)

ensure_registered(R, name, t) == Reg(or_insert(R.bots, name, t), R.files, R.io)

get(b, name) == IF name \in DOMAIN b THEN Some(b[name]) ELSE None

remove(R, name) ==
    Reg(Del(R.bots, name),
        remove_bot_file(R.files, name),
        R.io (+) SetToBag({IoCall("remove", name, <<>>)}))

\* mutant: a bot is stale when its whole history is older than the cutoff
stale_bot_names_by_history(b, max_age, t) ==
    LET cutoff == t - max_age
    IN  {n \in DOMAIN b :
           \A i \in 1..Len(b[n].heartbeat_history) : b[n].heartbeat_history[i] < cutoff}

\* mutant: a bot is stale from the cutoff itself on
stale_bot_names_inclusive(b, max_age, t) ==
    LET cutoff == t - max_age
    IN  {n \in DOMAIN b : b[n].last_heartbeat <= cutoff}

stale_bot_names(b, max_age, t) ==
    LET cutoff == t - max_age
    IN  {n \in DOMAIN b : b[n].last_heartbeat < cutoff}

\* mutant: a bot whose last heartbeat is exactly grace_period old is still online
is_online_inclusive(b, name, grace_period, t) ==
    name \in DOMAIN b /\ t - b[name].last_heartbeat <= grace_period

is_online(b, name, grace_period, t) ==
    name \in DOMAIN b /\ t - b[name].last_heartbeat < grace_period

\* mutant: `if` for `while`: at most one entry is popped
pop_front_once(h, cutoff) ==
    IF h # <<>> /\ Head(h) < cutoff THEN Tail(h) ELSE h

\* while front().is_some_and(|ts| *ts < cutoff) { pop_front() }
RECURSIVE pop_front_while(_, _)
pop_front_while(h, cutoff) ==
    IF h # <<>> /\ Head(h) < cutoff THEN pop_front_while(Tail(h), cutoff) ELSE h

RECURSIVE remove_all(_, _)
remove_all(R, S) ==
    IF S = {} THEN R
    ELSE LET n == CHOOSE x \in S : TRUE
         IN  remove_all(remove(R, n), S \ {n})

\* mutant: the trimmed histories are not written back
rewrite_none(R, S) == R

RECURSIVE rewrite_all(_, _)
rewrite_all(R, S) ==
    IF S = {} THEN R
    ELSE LET n == CHOOSE x \in S : TRUE
             records == R.bots[n].heartbeat_history
         IN  rewrite_all(Reg(R.bots,
                             rewrite_lines(R.files, n, records),
                             R.io (+) SetToBag({IoCall("rewrite", n, records)})),
                         S \ {n})

prune_heartbeat_history(R, retention, t) ==
    LET cutoff == t - retention
        trimmed == [n \in DOMAIN R.bots |->
                      BotInfo(R.bots[n].last_heartbeat,
                              pop_front_while(R.bots[n].heartbeat_history, cutoff))]
        dirty == {n \in DOMAIN R.bots :
                    Len(trimmed[n].heartbeat_history) # Len(R.bots[n].heartbeat_history)}
        empty_bots == {n \in DOMAIN trimmed : trimmed[n].heartbeat_history = <<>>}
        R1 == remove_all(Reg(trimmed, R.files, R.io), empty_bots)
    IN  rewrite_all(R1, dirty \cap DOMAIN R1.bots)


\* ------------------------------------------------------------ MetricStore
Met(m, f, io) == [metrics |-> m, files |-> f, io |-> io]

MetricEvent(event_id, value, tags, timestamp) ==
    [event_id |-> event_id, value |-> value, tags |-> tags, timestamp |-> timestamp]

\* client_timestamp.unwrap_or_else(Utc::now)
unwrap_or_now(client_timestamp, t) ==
    IF client_timestamp = None THEN t ELSE client_timestamp[1]

\* mutant: the event is stamped with the server's clock whatever the client sent
record_server_time(M, bot_name, event_id, value, tags, client_timestamp, t) ==
    LET event == MetricEvent(event_id, value, tags, t)
        events == IF bot_name \in DOMAIN M.metrics THEN M.metrics[bot_name] ELSE <<>>
    IN  Met(Put(M.metrics, bot_name, Append(events, event)),
            append_line(M.files, bot_name, event),
            M.io (+) SetToBag({IoCall("append", bot_name, <<event>>)}))

\* mutant: the event is pushed at the front of the sequence
record_push_front(M, bot_name, event_id, value, tags, client_timestamp, t) ==
    LET event == MetricEvent(event_id, value, tags, unwrap_or_now(client_timestamp, t))
        events == IF bot_name \in DOMAIN M.metrics THEN M.metrics[bot_name] ELSE <<>>
    IN  Met(Put(M.metrics, bot_name, <<event>> \o events),
            append_line(M.files, bot_name, event),
            M.io (+) SetToBag({IoCall("append", bot_name, <<event>>)}))

\* mutant: a failed append returns before the event is pushed
record_aborts_on_error(M, bot_name, event_id, value, tags, client_timestamp, t) ==
    LET event == MetricEvent(event_id, value, tags, unwrap_or_now(client_timestamp, t))
        events == IF bot_name \in DOMAIN M.metrics THEN M.metrics[bot_name] ELSE <<>>
    IN  Met(IF io_fails THEN M.metrics ELSE Put(M.metrics, bot_name, Append(events, event)),
            append_line(M.files, bot_name, event),
            M.io (+) SetToBag({IoCall("append", bot_name, <<event>>)}))

record(M, bot_name, event_id, value, tags, client_timestamp, t) ==
    LET event == MetricEvent(event_id, value, tags, unwrap_or_now(client_timestamp, t))
        events == IF bot_name \in DOMAIN M.metrics THEN M.metrics[bot_name] ELSE <<>>
    IN  Met(Put(M.metrics, bot_name, Append(events, event)),
            append_line(M.files, bot_name, event),
            M.io (+) SetToBag({IoCall("append", bot_name, <<event>>)}))

\* String's order on the event ids and on the tag values the model uses
SortedIds == <<"errors", "latency">>
SortedTagValues == <<"dev", "prod">>

\* ids.sort() / sorted.sort() of a de-duplicated collection
sort(order, S) ==
    LET In(x) == x \in S
    IN  SelectSeq(order, In)

\* mutant: the ids are returned in descending order
event_ids_descending(m, bot_name) ==
    IF bot_name \notin DOMAIN m THEN <<>>
    ELSE sort(<<"latency", "errors">>, {m[bot_name][i].event_id : i \in 1..Len(m[bot_name])})

event_ids(m, bot_name) ==
    IF bot_name \notin DOMAIN m THEN <<>>
    ELSE sort(SortedIds, {m[bot_name][i].event_id : i \in 1..Len(m[bot_name])})

\* tag_filters.iter().all(|(k, v)| e.tags.get(k).is_some_and(|tv| tv == v))
tags_match(e, tag_filters) ==
    \A k \in DOMAIN tag_filters : k \in DOMAIN e.tags /\ e.tags[k] = tag_filters[k]

\* mutant: the end of the window is exclusive
query_window_below_end(m, bot_name, event_id, start, end, tag_filters) ==
    IF bot_name \notin DOMAIN m THEN <<>>
    ELSE LET Keep(e) == /\ e.event_id = event_id
                        /\ e.timestamp >= start
                        /\ e.timestamp < end
                        /\ tags_match(e, tag_filters)
         IN  SelectSeq(m[bot_name], Keep)

\* mutant: the start of the window is exclusive
query_window_after_start(m, bot_name, event_id, start, end, tag_filters) ==
    IF bot_name \notin DOMAIN m THEN <<>>
    ELSE LET Keep(e) == /\ e.event_id = event_id
                        /\ e.timestamp > start
                        /\ e.timestamp <= end
                        /\ tags_match(e, tag_filters)
         IN  SelectSeq(m[bot_name], Keep)

query_window(m, bot_name, event_id, start, end, tag_filters) ==
    IF bot_name \notin DOMAIN m THEN <<>>
    ELSE LET Keep(e) == /\ e.event_id = event_id
                        /\ e.timestamp >= start
                        /\ e.timestamp <= end
                        /\ tags_match(e, tag_filters)
         IN  SelectSeq(m[bot_name], Keep)

available_tags(m, bot_name, event_id) ==
    IF bot_name \notin DOMAIN m THEN EmptyMap
    ELSE LET events == m[bot_name]
             of_id == {i \in 1..Len(events) : events[i].event_id = event_id}
             keys == UNION {DOMAIN events[i].tags : i \in of_id}
         IN  [k \in keys |->
                sort(SortedTagValues,
                     {events[i].tags[k] : i \in {j \in of_id : k \in DOMAIN events[j].tags}})]

\* mutant: an unknown bot is taken to have values
has_values_or_unknown(m, bot_name, event_id) ==
    \/ bot_name \notin DOMAIN m
    \/ \E i \in 1..Len(m[bot_name]) :
         m[bot_name][i].event_id = event_id /\ m[bot_name][i].value # None

has_values(m, bot_name, event_id) ==
    /\ bot_name \in DOMAIN m
    /\ \E i \in 1..Len(m[bot_name]) :
         m[bot_name][i].event_id = event_id /\ m[bot_name][i].value # None

\* mutant: every event older than the cutoff is dropped, wherever it stands
retain_recent(events, cutoff) ==
    LET Recent(e) == e.timestamp >= cutoff
    IN  SelectSeq(events, Recent)

\* mutant: the comparison is turned around, the front is popped while it is
\* not older than the cutoff
RECURSIVE pop_front_events_recent(_, _)
pop_front_events_recent(events, cutoff) ==
    IF events # <<>> /\ Head(events).timestamp >= cutoff
    THEN pop_front_events_recent(Tail(events), cutoff) ELSE events

\* while events.front().is_some_and(|e| e.timestamp < cutoff) { pop_front() }
RECURSIVE pop_front_events(_, _)
pop_front_events(events, cutoff) ==
    IF events # <<>> /\ Head(events).timestamp < cutoff
    THEN pop_front_events(Tail(events), cutoff) ELSE events

\* mutant: the bot's file is left behind
remove_bot_keeps_file(M, name) == Met(Del(M.metrics, name), M.files, M.io)

remove_bot(M, name) ==
    Met(Del(M.metrics, name),
        remove_bot_file(M.files, name),
        M.io (+) SetToBag({IoCall("remove", name, <<>>)}))

RECURSIVE remove_bots(_, _)
remove_bots(M, S) ==
    IF S = {} THEN M
    ELSE LET n == CHOOSE x \in S : TRUE
         IN  remove_bots(remove_bot(M, n), S \ {n})

RECURSIVE rewrite_metrics(_, _)
rewrite_metrics(M, S) ==
    IF S = {} THEN M
    ELSE LET n == CHOOSE x \in S : TRUE
         IN  rewrite_metrics(Met(M.metrics,
                                 rewrite_lines(M.files, n, M.metrics[n]),
                                 M.io (+) SetToBag({IoCall("rewrite", n, M.metrics[n])})),
                             S \ {n})

\* self.retention is DATA_RETENTION (AppState::new)
prune(M, t) ==
    LET cutoff == t - DATA_RETENTION
        trimmed == [n \in DOMAIN M.metrics |-> pop_front_events(M.metrics[n], cutoff)]
        empty_bots == {n \in DOMAIN trimmed : trimmed[n] = <<>>}
        M1 == remove_bots(Met(trimmed, M.files, M.io), empty_bots)
    IN  rewrite_metrics(M1, DOMAIN M1.metrics)

\* ------------------------------------------------------------ the pruner's two blocks
\* background.rs 32-43: the block that holds the registry write lock
prune_registry_block(R, t) ==
    LET R1 == prune_heartbeat_history(R, DATA_RETENTION, t)
        stale_names == stale_bot_names(R1.bots, DATA_RETENTION, t)
    IN  [reg |-> remove_all(R1, stale_names), stale_names |-> stale_names]

\* background.rs 45-51: the block that holds the metrics write lock
prune_metrics_block(M, stale_names, t) == remove_bots(prune(M, t), stale_names)

\* ------------------------------------------------------------ observed calls
\* What a caller sees of one store call: the method, its arguments, the
\* instant of the call and the value returned.
Call(op, args, at, val) == [op |-> op, args |-> args, at |-> at, val |-> val]
NoCall == Call("none", <<>>, 0, <<>>)

\* ------------------------------------------------------------ initial state
\* A first start on empty data directories: AppState::new() loads nothing.
Init ==
    /\ now = 0
    /\ bots = EmptyMap
    /\ created = EmptyMap
    /\ hbFiles = EmptyMap
    /\ metrics = EmptyMap
    /\ mFiles = EmptyMap
    /\ lastIo = EmptyBag
    /\ ret = NoCall
    /\ disk = "ok"
    /\ tokens = EmptyMap
    /\ watch = <<>>
    /\ pc = [t \in Tasks |-> IF t = Pruner THEN "sleep" ELSE "idle"]
    /\ arg = [t \in Tasks |-> [name |-> "-", ts |-> None]]
    /\ registryLock = [writers |-> {}, readers |-> {}, poisoned |-> FALSE]
    /\ metricsLock = [writers |-> {}, readers |-> {}, poisoned |-> FALSE]
    /\ regDone = [t \in Tasks |-> FALSE]
    /\ staleNames = {}
    /\ cycleRemoved = {}

\* the wall clock advances by a day
Tick ==
    /\ now < MaxTime
    /\ now' = now + 1
    /\ UNCHANGED <<storeVars, taskVars>>

\* The wall clock as the running server sees it: requests and prune cycles are
\* instantaneous at the scale of days, and what matters to them is whether a
\* timestamp is older than the retention window, so the clock of the
\* concurrent specification moves in steps of one window and a day.
ClockStep == DATA_RETENTION + 1

Elapse ==
    /\ now + ClockStep <= MaxTime
    /\ now' = now + ClockStep
    /\ UNCHANGED <<storeVars, taskVars>>

\* ------------------------------------------------------------ direct store calls
\* The registry and the metric store as objects: each public method called on
\* its own, in any order, by a caller that owns the store.
HistLen(n) == IF n \in DOMAIN bots THEN Len(bots[n].heartbeat_history) ELSE 0
EventsLen(n) == IF n \in DOMAIN metrics THEN Len(metrics[n]) ELSE 0

CurReg == Reg(bots, hbFiles, EmptyBag)
CurMet == Met(metrics, mFiles, EmptyBag)

\* The creation times of the records of b2 that hold no heartbeat, given those
\* known before the call at time t. (A record that holds a heartbeat keeps it
\* until the record is removed: its creation time is no longer looked at.)
Created(b2, t) ==
    [n \in {m \in DOMAIN b2 : b2[m].heartbeat_history = <<>>} |->
        IF n \in DOMAIN created THEN created[n] ELSE t]

SetReg(R) ==
    /\ bots' = R.bots
    /\ hbFiles' = R.files
    /\ lastIo' = R.io
    /\ created' = Created(R.bots, now)

LogHeartbeat(n) ==
    /\ HistLen(n) < MaxHist
    /\ SetReg(log_heartbeat(CurReg, n, now))
    /\ UNCHANGED <<now, metrics, mFiles, ret, disk, tokens, watch, taskVars>>

EnsureRegistered(n) ==
    /\ SetReg(ensure_registered(CurReg, n, now))
    /\ UNCHANGED <<now, metrics, mFiles, ret, disk, tokens, watch, taskVars>>

Remove(n) ==
    /\ SetReg(remove(CurReg, n))
    /\ UNCHANGED <<now, metrics, mFiles, ret, disk, tokens, watch, taskVars>>

PruneHistory(r) ==
    /\ SetReg(prune_heartbeat_history(CurReg, r, now))
    /\ UNCHANGED <<now, metrics, mFiles, ret, disk, tokens, watch, taskVars>>

RegNext ==
    \/ Tick
    \/ \E n \in Names : LogHeartbeat(n)
    \/ \E n \in Names : EnsureRegistered(n)
    \/ \E n \in Names : Remove(n)
    \/ \E r \in Retentions : PruneHistory(r)

RegSpec == Init /\ [][RegNext]_vars

SetMet(M) ==
    /\ metrics' = M.metrics
    /\ mFiles' = M.files
    /\ lastIo' = M.io

\* MetricStore::record called on its own
Record(n, ts) ==
    /\ EventsLen(n) < MaxEvents
    /\ SetMet(record(CurMet, n, "latency", None, EmptyMap, ts, now))
    /\ UNCHANGED <<now, bots, created, hbFiles, ret, disk, tokens, watch, taskVars>>


\* ------------------------------------------------------------ RwLock
NoLock == [writers |-> {}, readers |-> {}, poisoned |-> FALSE]

\* mutant: a writer is let in beside readers
can_write_beside_readers(l) == l.writers = {}

\* RwLock::write() returns once nobody holds the lock
can_write(l) == l.writers = {} /\ l.readers = {}
\* RwLock::read() returns once no writer holds the lock
can_read(l) == l.writers = {}

write_guard(l, t) == [l EXCEPT !.writers = @ \cup {t}]
read_guard(l, t) == [l EXCEPT !.readers = @ \cup {t}]
\* dropping the guard
drop(l, t) == [l EXCEPT !.writers = @ \ {t}, !.readers = @ \ {t}]

Holds(l, t) == t \in l.writers \cup l.readers

\* ------------------------------------------------------------ requests
\* what a /metrics request may carry as its timestamp

NoArg == [name |-> "-", ts |-> None]
Req(n, ts) == [name |-> n, ts |-> ts]

\* requests in flight that will append to n's heartbeat history / event sequence
HbInFlight(n) == Cardinality({t \in Handlers : pc[t] \in {"hb_lock", "hb_cs"} /\ arg[t].name = n})
RmInFlight(n) ==
    Cardinality({t \in Handlers :
                   pc[t] \in {"rm_lock_reg", "rm_cs_reg", "rm_lock_met", "rm_cs_met"}
                   /\ arg[t].name = n})

Goto(t, label) == pc' = [pc EXCEPT ![t] = label]

\* a request arrives at an idle worker, which blocks in the handler's first lock call
Arrive(t, label, a) ==
    /\ pc[t] = "idle"
    /\ Goto(t, label)
    /\ arg' = [arg EXCEPT ![t] = a]
    /\ UNCHANGED <<now, storeVars, registryLock, metricsLock, regDone, staleNames, cycleRemoved>>

\* state.registry.write().unwrap() returns
RegistryWrite(t, from, to) ==
    /\ pc[t] = from
    /\ can_write(registryLock)
    /\ ~registryLock.poisoned
    /\ registryLock' = write_guard(registryLock, t)
    /\ Goto(t, to)
    /\ UNCHANGED <<now, storeVars, arg, metricsLock, regDone, staleNames, cycleRemoved>>

\* state.registry.read().unwrap() returns
RegistryRead(t, from, to) ==
    /\ pc[t] = from
    /\ can_read(registryLock)
    /\ ~registryLock.poisoned
    /\ registryLock' = read_guard(registryLock, t)
    /\ Goto(t, to)
    /\ UNCHANGED <<now, storeVars, arg, metricsLock, regDone, staleNames, cycleRemoved>>

\* state.metrics.write().unwrap() returns
MetricsWrite(t, from, to) ==
    /\ pc[t] = from
    /\ can_write(metricsLock)
    /\ ~metricsLock.poisoned
    /\ metricsLock' = write_guard(metricsLock, t)
    /\ Goto(t, to)
    /\ UNCHANGED <<now, storeVars, arg, registryLock, regDone, staleNames, cycleRemoved>>

\* state.metrics.read().unwrap() returns
MetricsRead(t, from, to) ==
    /\ pc[t] = from
    /\ can_read(metricsLock)
    /\ ~metricsLock.poisoned
    /\ metricsLock' = read_guard(metricsLock, t)
    /\ Goto(t, to)
    /\ UNCHANGED <<now, storeVars, arg, registryLock, regDone, staleNames, cycleRemoved>>

\* the task's request is answered
Finish(t) ==
    /\ Goto(t, "idle")
    /\ arg' = [arg EXCEPT ![t] = NoArg]
    /\ regDone' = [regDone EXCEPT ![t] = FALSE]

\* ------------------------------------------------------------ routes::heartbeat
heartbeat_request(t, n) ==
    /\ HistLen(n) + HbInFlight(n) < MaxHist
    /\ Arrive(t, "hb_lock", Req(n, None))

heartbeat_lock(t) == RegistryWrite(t, "hb_lock", "hb_cs")

\* log_heartbeat under the guard; the guard drops when the handler returns
heartbeat_body(t) ==
    /\ pc[t] = "hb_cs"
    /\ LET R == log_heartbeat(CurReg, arg[t].name, now)
       IN  bots' = R.bots /\ hbFiles' = R.files /\ created' = Created(R.bots, now)
    /\ registryLock' = drop(registryLock, t)
    /\ Finish(t)
    /\ UNCHANGED <<now, metrics, mFiles, lastIo, ret, disk, tokens, watch, metricsLock, staleNames, cycleRemoved>>

heartbeat(t) ==
    \/ \E n \in Names : heartbeat_request(t, n)
    \/ heartbeat_lock(t)
    \/ heartbeat_body(t)

\* ------------------------------------------------------------ routes::record_metric
record_metric_request(t, n, ts) ==
    /\ EventsLen(n) + RmInFlight(n) < MaxEvents
    /\ Arrive(t, "rm_lock_reg", Req(n, ts))

record_metric_lock_registry(t) == RegistryWrite(t, "rm_lock_reg", "rm_cs_reg")

\* mutant: the registry guard lives to the end of the handler
record_metric_keeps_guard(t) ==
    /\ pc[t] = "rm_cs_reg"
    /\ LET R == ensure_registered(CurReg, arg[t].name, now)
       IN  bots' = R.bots /\ hbFiles' = R.files /\ created' = Created(R.bots, now)
    /\ Goto(t, "rm_lock_met")
    /\ UNCHANGED <<now, metrics, mFiles, lastIo, ret, disk, tokens, watch, arg, registryLock, regDone, metricsLock,
                   staleNames, cycleRemoved>>

\* the first block: ensure_registered, then the registry guard drops
record_metric_registry_block(t) ==
    /\ pc[t] = "rm_cs_reg"
    /\ LET R == ensure_registered(CurReg, arg[t].name, now)
       IN  bots' = R.bots /\ hbFiles' = R.files /\ created' = Created(R.bots, now)
    /\ registryLock' = drop(registryLock, t)
    /\ regDone' = [regDone EXCEPT ![t] = TRUE]
    /\ Goto(t, "rm_lock_met")
    /\ UNCHANGED <<now, metrics, mFiles, lastIo, ret, disk, tokens, watch, arg, metricsLock, staleNames, cycleRemoved>>

record_metric_lock_metrics(t) == MetricsWrite(t, "rm_lock_met", "rm_cs_met")

\* the second block: record, then the metrics guard drops and the handler returns
record_metric_metrics_block(t) ==
    /\ pc[t] = "rm_cs_met"
    /\ LET M == record(CurMet, arg[t].name, "latency", None, EmptyMap, arg[t].ts, now)
       IN  metrics' = M.metrics /\ mFiles' = M.files
    /\ metricsLock' = drop(metricsLock, t)
    /\ Finish(t)
    /\ UNCHANGED <<now, bots, created, hbFiles, lastIo, ret, disk, tokens, watch, registryLock, staleNames, cycleRemoved>>

record_metric(t) ==
    \/ \E n \in Names, ts \in {None, Some(0)} : record_metric_request(t, n, ts)
    \/ record_metric_lock_registry(t)
    \/ record_metric_registry_block(t)
    \/ record_metric_lock_metrics(t)
    \/ record_metric_metrics_block(t)

\* ------------------------------------------------------------ views::bot_detail
bot_detail_request(t, n) == Arrive(t, "bd_lock_reg", Req(n, None))

bot_detail_lock(t) == RegistryRead(t, "bd_lock_reg", "bd_cs_reg")

\* get(name) or 404; is_online; drop(registry); then render_charts
bot_detail_body(t) ==
    /\ pc[t] = "bd_cs_reg"
    /\ registryLock' = drop(registryLock, t)
    /\ IF get(bots, arg[t].name) = None
       THEN Finish(t)
       ELSE /\ Goto(t, "rc_lock_reg")
            /\ regDone' = [regDone EXCEPT ![t] = TRUE]
            /\ arg' = [arg EXCEPT ![t] = NoArg]
    /\ UNCHANGED <<now, storeVars, metricsLock, staleNames, cycleRemoved>>

bot_detail(t) ==
    \/ \E n \in Names : bot_detail_request(t, n)
    \/ bot_detail_lock(t)
    \/ bot_detail_body(t)

\* ------------------------------------------------------------ views::render_charts
\* What is rendered is not part of the state, so the bot's name is not kept.
\* fragment_bot_charts, add_chart, remove_chart and update_chart_filter call it directly
render_charts_request(t) == Arrive(t, "rc_lock_reg", NoArg)

\* render_uptime_section: registry.read()
render_charts_lock_registry(t) == RegistryRead(t, "rc_lock_reg", "rc_cs_reg")

\* render_uptime_section returns: its guard drops
render_uptime_section(t) ==
    /\ pc[t] = "rc_cs_reg"
    /\ registryLock' = drop(registryLock, t)
    /\ regDone' = [regDone EXCEPT ![t] = TRUE]
    /\ Goto(t, "rc_lock_met")
    /\ UNCHANGED <<now, storeVars, arg, metricsLock, staleNames, cycleRemoved>>

render_charts_lock_metrics(t) == MetricsRead(t, "rc_lock_met", "rc_cs_met")

\* mutant: the metrics guard is never dropped
render_metric_charts_keeps_guard(t) ==
    /\ pc[t] = "rc_cs_met"
    /\ Finish(t)
    /\ UNCHANGED <<now, storeVars, registryLock, metricsLock, staleNames, cycleRemoved>>

\* the charts are rendered from metrics_guard; drop(metrics_guard)
render_metric_charts(t) ==
    /\ pc[t] = "rc_cs_met"
    /\ metricsLock' = drop(metricsLock, t)
    /\ Finish(t)
    /\ UNCHANGED <<now, storeVars, registryLock, staleNames, cycleRemoved>>

render_charts(t) ==
    \/ render_charts_request(t)
    \/ render_charts_lock_registry(t)
    \/ render_uptime_section(t)
    \/ render_charts_lock_metrics(t)
    \/ render_metric_charts(t)

\* ------------------------------------------------------------ views::chart_actions
\* add_chart_events and add_chart_types: metrics.read(), one query, drop(metrics)
add_chart_request(t) == Arrive(t, "ac_lock_met", NoArg)

add_chart_lock(t) == MetricsRead(t, "ac_lock_met", "ac_cs_met")

add_chart_body(t) ==
    /\ pc[t] = "ac_cs_met"
    /\ metricsLock' = drop(metricsLock, t)
    /\ Finish(t)
    /\ UNCHANGED <<now, storeVars, registryLock, staleNames, cycleRemoved>>

add_chart_events(t) ==
    \/ add_chart_request(t)
    \/ add_chart_lock(t)
    \/ add_chart_body(t)

\* ------------------------------------------------------------ background pruner
\* interval.tick().await returns
pruner_wake ==
    /\ pc[Pruner] = "sleep"
    /\ Goto(Pruner, "pr_lock_reg")
    /\ UNCHANGED <<now, storeVars, arg, registryLock, metricsLock, regDone, staleNames, cycleRemoved>>

pruner_lock_registry == RegistryWrite(Pruner, "pr_lock_reg", "pr_cs_reg")

pruner_registry_block ==
    /\ pc[Pruner] = "pr_cs_reg"
    /\ LET P == prune_registry_block(CurReg, now)
       IN  /\ bots' = P.reg.bots
           /\ hbFiles' = P.reg.files
           /\ staleNames' = P.stale_names
           /\ created' = Created(P.reg.bots, now)
           /\ cycleRemoved' = (DOMAIN bots) \ (DOMAIN P.reg.bots)
    /\ registryLock' = drop(registryLock, Pruner)
    /\ regDone' = [regDone EXCEPT ![Pruner] = TRUE]
    /\ Goto(Pruner, "pr_lock_met")
    /\ UNCHANGED <<now, metrics, mFiles, lastIo, ret, disk, tokens, watch, arg, metricsLock>>

pruner_lock_metrics == MetricsWrite(Pruner, "pr_lock_met", "pr_cs_met")

pruner_metrics_block ==
    /\ pc[Pruner] = "pr_cs_met"
    /\ LET M == prune_metrics_block(CurMet, staleNames, now)
       IN  metrics' = M.metrics /\ mFiles' = M.files
    /\ metricsLock' = drop(metricsLock, Pruner)
    /\ regDone' = [regDone EXCEPT ![Pruner] = FALSE]
    /\ staleNames' = {}
    /\ cycleRemoved' = {}
    /\ Goto(Pruner, "sleep")
    /\ UNCHANGED <<now, bots, created, hbFiles, lastIo, ret, disk, tokens, watch, arg, registryLock>>

on_liftoff ==
    \/ pruner_wake
    \/ pruner_lock_registry
    \/ pruner_registry_block
    \/ pruner_lock_metrics
    \/ pruner_metrics_block

HandlerStep(t) ==
    \/ heartbeat(t)
    \/ record_metric(t)
    \/ bot_detail(t)
    \/ render_charts(t)
    \/ add_chart_events(t)

Next ==
    \/ Elapse
    \/ \E t \in Handlers : HandlerStep(t)
    \/ on_liftoff

Spec == Init /\ [][Next]_vars

\* ------------------------------------------------------------ an adjusted wall clock
\* Utc::now() reads the system's wall clock, which an operator or a time
\* service can set back.
ClockSetBack ==
    /\ now - ClockStep >= 0
    /\ now' = now - ClockStep
    /\ UNCHANGED <<storeVars, taskVars>>

\* The stores under a wall clock that can be set back: heartbeats,
\* registrations, removals and metrics arrive as store calls made while the
\* store's lock is free, and the pruner runs its cycle.
SkewNext ==
    \/ Elapse
    \/ ClockSetBack
    \/ \E n \in Names : registryLock = NoLock /\ LogHeartbeat(n)
    \/ \E n \in Names : registryLock = NoLock /\ EnsureRegistered(n)
    \/ \E n \in Names : registryLock = NoLock /\ Remove(n)
    \/ \E n \in Names : metricsLock = NoLock /\ Record(n, None)
    \/ on_liftoff

SkewSpec == Init /\ [][SkewNext]_vars

\* ------------------------------------------------------------ fair scheduling
\* A handler that holds a guard runs to the end of the block that drops it: the
\* blocks are synchronous and do not await.
HandlerRuns(t) ==
    \/ heartbeat_body(t)
    \/ record_metric_registry_block(t)
    \/ record_metric_metrics_block(t)
    \/ bot_detail_body(t)
    \/ render_uptime_section(t)
    \/ render_metric_charts(t)
    \/ add_chart_body(t)

\* The pruner's blocks run to their end too, and under fair scheduling a lock
\* that is free again and again is granted to the pruner at some point.
Fairness ==
    /\ \A t \in Handlers : WF_vars(HandlerRuns(t))
    /\ WF_vars(pruner_registry_block)
    /\ WF_vars(pruner_metrics_block)
    /\ SF_vars(pruner_lock_registry)
    /\ SF_vars(pruner_lock_metrics)

\* The traffic the liveness check runs on: both handlers serve requests for
\* one bot, stamped by the server. Every step of every handler is there.
FairBot == "bot1"

FairHandlerStep(t) ==
    \/ heartbeat_request(t, FairBot)
    \/ heartbeat_lock(t)
    \/ heartbeat_body(t)
    \/ record_metric_request(t, FairBot, None)
    \/ record_metric_lock_registry(t)
    \/ record_metric_registry_block(t)
    \/ record_metric_lock_metrics(t)
    \/ record_metric_metrics_block(t)
    \/ bot_detail_request(t, FairBot)
    \/ bot_detail_lock(t)
    \/ bot_detail_body(t)
    \/ render_charts_request(t)
    \/ render_charts_lock_registry(t)
    \/ render_uptime_section(t)
    \/ render_charts_lock_metrics(t)
    \/ render_metric_charts(t)
    \/ add_chart_request(t)
    \/ add_chart_lock(t)
    \/ add_chart_body(t)

FairNext ==
    \/ Elapse
    \/ \E t \in Handlers : FairHandlerStep(t)
    \/ on_liftoff

FairSpec == Init /\ [][FairNext]_vars /\ Fairness


\* ------------------------------------------------------------ a panic under a write guard
\* What a panic ends is decided by the build, which is not part of the
\* sources: the whole process with panic = "abort", and with the default
\* "unwind" the panicking task only (the runtime catches the panic of a
\* spawned task: the pruner's loop ends, a connection's task ends and its
\* worker serves the next request).
PanicStrategies == {"abort", "unwind"}

\* a write guard dropped while its thread panics poisons the lock
poison(l, t) == [drop(l, t) EXCEPT !.poisoned = TRUE]

\* the task panics
Panics(t, strategy) ==
    /\ pc' = IF strategy = "abort" THEN [u \in Tasks |-> "dead"]
             ELSE [pc EXCEPT ![t] = IF t = Pruner THEN "dead" ELSE "idle"]
    /\ arg' = [arg EXCEPT ![t] = NoArg]
    /\ regDone' = [regDone EXCEPT ![t] = FALSE]
    /\ UNCHANGED <<now, storeVars, staleNames, cycleRemoved>>

\* a panic inside a block that holds a write guard, before the block's mutation
panic_under_guard(t, strategy) ==
    /\ \/ /\ pc[t] \in {"hb_cs", "rm_cs_reg", "pr_cs_reg"}
          /\ registryLock' = poison(registryLock, t)
          /\ UNCHANGED metricsLock
       \/ /\ pc[t] \in {"rm_cs_met", "pr_cs_met"}
          /\ metricsLock' = poison(metricsLock, t)
          /\ UNCHANGED registryLock
    /\ Panics(t, strategy)

\* write() or read() of a poisoned lock returns Err once the lock can be
\* taken, and unwrap() panics; the guard inside the error is dropped
unwrap_poisoned(t, strategy) ==
    /\ \/ pc[t] \in {"hb_lock", "rm_lock_reg", "pr_lock_reg"} /\ can_write(registryLock) /\ registryLock.poisoned
       \/ pc[t] \in {"bd_lock_reg", "rc_lock_reg"} /\ can_read(registryLock) /\ registryLock.poisoned
       \/ pc[t] \in {"rm_lock_met", "pr_lock_met"} /\ can_write(metricsLock) /\ metricsLock.poisoned
       \/ pc[t] \in {"rc_lock_met", "ac_lock_met"} /\ can_read(metricsLock) /\ metricsLock.poisoned
    /\ UNCHANGED <<registryLock, metricsLock>>
    /\ Panics(t, strategy)

\* The server at one instant, where a block under a write guard may panic:
\* heartbeats are ingested, the add-chart fragment queries the metric store
\* and the pruner runs its cycles.
PoisonNext ==
    \/ \E t \in Handlers : heartbeat(t)
    \/ \E t \in Handlers : add_chart_events(t)
    \/ on_liftoff
    \/ \E t \in Tasks, strategy \in PanicStrategies : panic_under_guard(t, strategy)
    \/ \E t \in Tasks, strategy \in PanicStrategies : unwrap_poisoned(t, strategy)

PoisonSpec == Init /\ [][PoisonNext]_vars


\* ------------------------------------------------------------ the registry's queries
\* grace periods and maximal ages a caller passes, in units of the clock: none,
\* the shortest, one clock step and more than one clock step
Graces == {0, 1, ClockStep, ClockStep + 1}

\* a read-only method of the registry is called and its result observed
\* mutant: before it answers, a query drops the records that have no file
observe_synced(c) ==
    /\ ret' = c
    /\ bots' = [n \in DOMAIN bots \cap DOMAIN hbFiles |-> bots[n]]
    /\ UNCHANGED <<now, created, hbFiles, metrics, mFiles, lastIo, disk, tokens, watch, taskVars>>

Observe(c) ==
    /\ ret' = c
    /\ UNCHANGED <<now, bots, created, hbFiles, metrics, mFiles, lastIo, disk, tokens, watch, taskVars>>

Get(n) == Observe(Call("get", <<n>>, now, get(bots, n)))

IsOnline(n, g) == Observe(Call("is_online", <<n, g>>, now, is_online(bots, n, g, now)))

StaleBotNames(a) ==
    Observe(Call("stale_bot_names", <<a>>, now, stale_bot_names(bots, a, now)))

\* The registry as an object whose queries are observed, under a wall clock
\* that moves by whole steps and can be set back.
QueryNext ==
    \/ Elapse
    \/ ClockSetBack
    \/ \E n \in Names : LogHeartbeat(n)
    \/ \E n \in Names : EnsureRegistered(n)
    \/ \E n \in Names : Remove(n)
    \/ \E n \in Names : Get(n)
    \/ \E n \in Names, g \in Graces : IsOnline(n, g)
    \/ \E a \in Retentions : StaleBotNames(a)

QuerySpec == Init /\ [][QueryNext]_vars


\* ------------------------------------------------------------ the metric store's methods
\* the metrics a client posts: (event_id, value, tags, timestamp)
MetricInput(event_id, value, tags, ts) ==
    [event_id |-> event_id, value |-> value, tags |-> tags, ts |-> ts]

RecordInputs ==
    { MetricInput("latency", Some(42), EmptyMap, None),
      MetricInput("latency", None, [k \in {"env"} |-> "prod"], Some(0)),
      MetricInput("latency", Some(7), [k \in {"env"} |-> "dev"], Some(1)),
      MetricInput("errors", Some(42), [k \in {"env"} |-> "prod"], Some(1)) }

RECURSIVE StoredIn(_, _)
StoredIn(m, S) ==
    IF S = {} THEN 0
    ELSE LET n == CHOOSE x \in S : TRUE
         IN  Len(m[n]) + StoredIn(m, S \ {n})

RecordCall(n, in) ==
    /\ StoredIn(metrics, DOMAIN metrics) < MaxStored
    /\ SetMet(record(CurMet, n, in.event_id, in.value, in.tags, in.ts, now))
    /\ ret' = Call("record", <<n, in>>, now, unwrap_or_now(in.ts, now))
    /\ UNCHANGED <<now, bots, created, hbFiles, disk, tokens, watch, taskVars>>

QueryWindow(n, id, w, f) ==
    Observe(Call("query_window", <<n, id, w[1], w[2], f>>, now,
                 query_window(metrics, n, id, w[1], w[2], f)))

EventIds(n) == Observe(Call("event_ids", <<n>>, now, event_ids(metrics, n)))

AvailableTags(n, id) ==
    Observe(Call("available_tags", <<n, id>>, now, available_tags(metrics, n, id)))

HasValues(n, id) == Observe(Call("has_values", <<n, id>>, now, has_values(metrics, n, id)))

Prune ==
    /\ SetMet(prune(CurMet, now))
    /\ UNCHANGED <<now, bots, created, hbFiles, ret, disk, tokens, watch, taskVars>>

RemoveBot(n) ==
    /\ SetMet(remove_bot(CurMet, n))
    /\ UNCHANGED <<now, bots, created, hbFiles, ret, disk, tokens, watch, taskVars>>

\* The metric store as an object: events are recorded, windows of them are
\* queried, its event ids and whether they carry values are asked for, the
\* store is pruned and bots are removed, each call on its own.
MetNext ==
    \/ Elapse
    \/ \E n \in Names, in \in RecordInputs : RecordCall(n, in)
    \/ \E n \in Names, id \in {"latency", "errors"}, w \in {<<0, 1>>, <<0, ClockStep + 1>>},
          f \in {EmptyMap, [k \in {"env"} |-> "prod"]} :
         QueryWindow(n, id, w, f)
    \/ \E n \in Names : EventIds(n)
    \/ \E n \in Names, id \in {"latency", "errors"} : HasValues(n, id)
    \/ Prune
    \/ \E n \in Names : RemoveBot(n)

MetSpec == Init /\ [][MetNext]_vars

\* Both stores as objects, for what a caller sees of a bot that one store or
\* both do not know: bots come and go by heartbeats, registrations, metrics
\* and removals, all within one instant of the clock, and every lookup is made
\* for one event id, one window, no tag filter and the shortest grace period.
LookupNext ==
    \/ \E n \in Names : LogHeartbeat(n)
    \/ \E n \in Names : EnsureRegistered(n)
    \/ \E n \in Names : Remove(n)
    \/ \E n \in Names, in \in {x \in RecordInputs : x.ts = None /\ x.tags = EmptyMap} :
         RecordCall(n, in)
    \/ \E n \in Names : RemoveBot(n)
    \/ \E n \in Names : Get(n)
    \/ \E n \in Names : IsOnline(n, 1)
    \/ \E n \in Names : QueryWindow(n, "latency", <<0, ClockStep + 1>>, EmptyMap)
    \/ \E n \in Names : EventIds(n)
    \/ \E n \in Names : AvailableTags(n, "latency")
    \/ \E n \in Names : HasValues(n, "latency")

LookupSpec == Init /\ [][LookupNext]_vars


\* ------------------------------------------------------------ a volume that may fail
\* the volume starts to return errors: every storage call fails until it
\* recovers (one episode of failure is followed)
DiskFails ==
    /\ disk = "ok"
    /\ disk' = "failing"
    /\ UNCHANGED <<now, bots, created, hbFiles, metrics, mFiles, lastIo, ret, tokens, watch, taskVars>>

DiskRecovers ==
    /\ disk = "failing"
    /\ disk' = "recovered"
    /\ UNCHANGED <<now, bots, created, hbFiles, metrics, mFiles, lastIo, ret, tokens, watch, taskVars>>

\* the bot whose two logs are followed
DurableNames == {"bot1"}

\* Both stores as objects over their data directories: every mutating method
\* is called on its own for one bot, the clock moves by whole steps, and the
\* volume may fail at any time and recover later.
DurableNext ==
    \/ Elapse
    \/ DiskFails
    \/ DiskRecovers
    \/ \E n \in DurableNames : LogHeartbeat(n)
    \/ \E n \in DurableNames : EnsureRegistered(n)
    \/ \E n \in DurableNames : Remove(n)
    \/ \E r \in Retentions : PruneHistory(r)
    \/ \E n \in DurableNames, in \in {MetricInput("latency", Some(42), EmptyMap, None)} : RecordCall(n, in)
    \/ Prune
    \/ \E n \in DurableNames : RemoveBot(n)

DurableSpec == Init /\ [][DurableNext]_vars

\* The same, with the queries of both stores asked in between: what they
\* answer can be compared with the files where memory and files differ.
ReadNext ==
    \/ DurableNext
    \/ \E n \in DurableNames : Get(n)
    \/ \E n \in DurableNames : IsOnline(n, 1)
    \/ StaleBotNames(DATA_RETENTION)
    \/ \E n \in DurableNames : QueryWindow(n, "latency", <<0, ClockStep + 1>>, EmptyMap)
    \/ \E n \in DurableNames : EventIds(n)
    \/ \E n \in DurableNames : AvailableTags(n, "latency")
    \/ \E n \in DurableNames : HasValues(n, "latency")

ReadSpec == Init /\ [][ReadNext]_vars

\* ------------------------------------------------------------ restart
\* mutant: last_heartbeat is taken from the first line of the file
BotRegistry_new_front(files) ==
    [n \in {m \in DOMAIN files : load_lines(files, m) # <<>>} |->
        BotInfo(load_lines(files, n)[1], load_lines(files, n))]

\* BotRegistry::new: every discovered bot whose file holds a line gets a record
\* with the lines as its history and the last of them as last_heartbeat
BotRegistry_new(files) ==
    [n \in {m \in DOMAIN files : load_lines(files, m) # <<>>} |->
        BotInfo(load_lines(files, n)[Len(load_lines(files, n))], load_lines(files, n))]

\* MetricStore::new: every discovered bot whose file holds an event gets them
MetricStore_new(files) ==
    [n \in {m \in DOMAIN files : load_lines(files, m) # <<>>} |-> load_lines(files, n)]

\* The process ends and is started again over the same data directories:
\* AppState::new() builds both stores from their files.
Restart ==
    /\ ret' = Call("restart", <<>>, now, <<>>)
    /\ bots' = BotRegistry_new(hbFiles)
    /\ metrics' = MetricStore_new(mFiles)
    /\ created' = EmptyMap
    /\ lastIo' = EmptyBag
    /\ UNCHANGED <<now, hbFiles, mFiles, disk, tokens, watch, taskVars>>

\* Both stores as objects over a volume that does not fail: every mutating
\* method is called on its own, the clock moves by whole steps, and the
\* process may be restarted between any two calls.
RestartNext ==
    \/ Elapse
    \/ \E n \in Names : LogHeartbeat(n)
    \/ \E n \in Names : EnsureRegistered(n)
    \/ \E n \in Names : Remove(n)
    \/ PruneHistory(DATA_RETENTION)
    \/ \E n \in Names, in \in {x \in RecordInputs : x.ts = None} : RecordCall(n, in)
    \/ Prune
    \/ \E n \in Names : RemoveBot(n)
    \/ Restart

RestartSpec == Init /\ [][RestartNext]_vars

\* ------------------------------------------------------------ CancellationRegistry
\* The cleanup bot's registry of per-channel cancellation senders. A watch
\* channel is made by every register; its receiver is the token the cleanup
\* task holds, and it reports cancelled when the channel's value is true.
Channels == {"c1", "c2"}

\* the watch channels made in a run
MaxRegistered == 3

\* register: watch::channel(false), the sender replaces the channel's entry
\* and the receiver is returned
Register(ch) ==
    /\ Len(watch) < MaxRegistered
    /\ watch' = Append(watch, [value |-> FALSE, receivers |-> 1])
    /\ tokens' = Put(tokens, ch, Len(watch) + 1)
    /\ ret' = Call("register", <<ch>>, now, Len(watch) + 1)
    /\ UNCHANGED <<now, bots, created, hbFiles, metrics, mFiles, lastIo, disk, taskVars>>

\* mutant: cancel also removes the sender it signalled
cancel_and_deregister(ch) ==
    /\ watch' = IF ch \in DOMAIN tokens /\ watch[tokens[ch]].receivers > 0
                THEN [watch EXCEPT ![tokens[ch]].value = TRUE]
                ELSE watch
    /\ tokens' = Del(tokens, ch)
    /\ ret' = Call("cancel", <<ch>>, now, ch \in DOMAIN tokens)
    /\ UNCHANGED <<now, bots, created, hbFiles, metrics, mFiles, lastIo, disk, taskVars>>

\* cancel: tx.send(true) on the channel's sender, whose error is ignored:
\* watch::Sender::send stores the value unless every receiver was dropped
Cancel(ch) ==
    /\ watch' = IF ch \in DOMAIN tokens /\ watch[tokens[ch]].receivers > 0
                THEN [watch EXCEPT ![tokens[ch]].value = TRUE]
                ELSE watch
    /\ ret' = Call("cancel", <<ch>>, now, ch \in DOMAIN tokens)
    /\ UNCHANGED <<now, bots, created, hbFiles, metrics, mFiles, lastIo, disk, tokens,
                   taskVars>>

Deregister(ch) ==
    /\ tokens' = Del(tokens, ch)
    /\ ret' = Call("deregister", <<ch>>, now, <<>>)
    /\ UNCHANGED <<now, bots, created, hbFiles, metrics, mFiles, lastIo, disk, watch,
                   taskVars>>

IsRunning(ch) == Observe(Call("is_running", <<ch>>, now, ch \in DOMAIN tokens))

\* the holder of a token reads it: *rx.borrow()
IsCancelled(i) ==
    /\ i \in 1..Len(watch)
    /\ watch[i].receivers > 0
    /\ Observe(Call("is_cancelled", <<i>>, now, watch[i].value))

\* the cleanup task ends and its token is dropped
DropReceiver(i) ==
    /\ i \in 1..Len(watch)
    /\ watch[i].receivers > 0
    /\ watch' = [watch EXCEPT ![i].receivers = 0]
    /\ ret' = Call("drop", <<i>>, now, <<>>)
    /\ UNCHANGED <<now, bots, created, hbFiles, metrics, mFiles, lastIo, disk, tokens,
                   taskVars>>

\* The registry as an object behind its mutex: its methods are called in any
\* order for two channels, and the tokens are read and dropped by their holders.
CancelNext ==
    \/ \E ch \in Channels : Register(ch)
    \/ \E ch \in Channels : Cancel(ch)
    \/ \E ch \in Channels : Deregister(ch)
    \/ \E ch \in Channels : IsRunning(ch)
    \/ \E i \in 1..MaxRegistered : IsCancelled(i)
    \/ \E i \in 1..MaxRegistered : DropReceiver(i)

CancelSpec == Init /\ [][CancelNext]_vars


\* ------------------------------------------------------------ charts
\* The chart functions are pure. Their DateTime<Utc> arguments are counted in
\* ticks, Ticks to the second, so that an instant can fall between two whole
\* seconds as the clock's do.
Ticks == 2

\* chrono::Duration::seconds
seconds(k) == k * Ticks

\* i64's `/`: the quotient truncated toward zero (the divisor is not zero)
div(a, b) ==
    LET q == (IF a >= 0 THEN a ELSE -a) \div (IF b >= 0 THEN b ELSE -b)
    IN  IF (a >= 0) = (b >= 0) THEN q ELSE -q

\* TimeDelta::num_seconds: the whole seconds of a duration, toward zero
num_seconds(d) == div(d, Ticks)

max(a, b) == IF a >= b THEN a ELSE b
min(a, b) == IF a <= b THEN a ELSE b

\* How a call ends: it has not run yet, it returned val, or it panicked
\* ("attempt to divide by zero").
Pending == [state |-> "pending", val |-> <<>>]
Ok(val) == [state |-> "ok", val |-> val]
Panicked == [state |-> "panic", val |-> <<>>]

TimeBucket(start, end) == [start |-> start, end |-> end]

compute_time_buckets(start, end, num_buckets, min_bucket_secs) ==
    LET total_secs == num_seconds(end - start)
    IN  IF num_buckets = 0 THEN Panicked
        ELSE LET bucket_secs == max(div(total_secs, num_buckets), min_bucket_secs)
             IN  IF bucket_secs = 0 THEN Panicked
                 ELSE LET actual_buckets == max(div(total_secs, bucket_secs), 1)
                      IN  Ok([i \in 1..actual_buckets |->
                                TimeBucket(start + seconds(bucket_secs * (i - 1)),
                                           start + seconds(bucket_secs * i))])

\* the loop of bucket_events over the events, from the first to the last
RECURSIVE push_events(_, _, _, _, _)
push_events(buckets, events, start, bucket_secs, actual_buckets) ==
    IF events = <<>> THEN buckets
    ELSE LET event == Head(events)
             offset == num_seconds(event.timestamp - start)
             idx == min(div(offset, bucket_secs), actual_buckets - 1)
         IN  push_events(IF offset < 0 THEN buckets
                         ELSE [buckets EXCEPT ![idx + 1].events = Append(@, event)],
                         Tail(events), start, bucket_secs, actual_buckets)

bucket_events(events, start, end, num_buckets, min_bucket_secs) ==
    LET time_buckets == compute_time_buckets(start, end, num_buckets, min_bucket_secs)
    IN  IF time_buckets.state # "ok" THEN Panicked
        ELSE LET total_secs == num_seconds(end - start)
                 bucket_secs == max(div(total_secs, num_buckets), min_bucket_secs)
                 actual_buckets == Len(time_buckets.val)
                 buckets == [i \in 1..actual_buckets |->
                               [start |-> time_buckets.val[i].start, events |-> <<>>]]
             IN  Ok(push_events(buckets, events, start, bucket_secs, actual_buckets))

\* events.iter().filter_map(|e| e.value).collect()
RECURSIVE filter_map_value(_)
filter_map_value(events) ==
    IF events = <<>> THEN <<>>
    ELSE (IF Head(events).value = None THEN <<>> ELSE <<Head(events).value[1]>>)
         \o filter_map_value(Tail(events))

\* values.iter().sum()
RECURSIVE sum(_)
sum(values) == IF values = <<>> THEN 0 ELSE Head(values) + sum(Tail(values))

\* mutant: only the events that carry a value are counted
aggregate_count_valued(buckets) ==
    [i \in 1..Len(buckets) |->
       <<buckets[i].start, Len(filter_map_value(buckets[i].events))>>]

aggregate_count(buckets) ==
    [i \in 1..Len(buckets) |-> <<buckets[i].start, Len(buckets[i].events)>>]

aggregate_sum(buckets) ==
    [i \in 1..Len(buckets) |->
       <<buckets[i].start, sum(filter_map_value(buckets[i].events))>>]

\* mutant: the sum of the values is divided by the number of events
\* (an f64 quotient is kept as its numerator and denominator)
aggregate_average_of_events(buckets) ==
    [i \in 1..Len(buckets) |->
       LET values == filter_map_value(buckets[i].events)
       IN  <<buckets[i].start,
             IF values = <<>> THEN [num |-> 0, den |-> 1]
             ELSE [num |-> sum(values), den |-> Len(buckets[i].events)]>>]

aggregate_average(buckets) ==
    [i \in 1..Len(buckets) |->
       LET values == filter_map_value(buckets[i].events)
       IN  <<buckets[i].start,
             IF values = <<>> THEN [num |-> 0, den |-> 1]
             ELSE [num |-> sum(values), den |-> Len(values)]>>]

\* the loop of render_uptime_chart over the heartbeats
RECURSIVE mark_heartbeats(_, _, _, _, _)
mark_heartbeats(has_heartbeat, heartbeats, start, bucket_secs, actual_buckets) ==
    IF heartbeats = <<>> THEN has_heartbeat
    ELSE LET offset == num_seconds(Head(heartbeats) - start)
             idx == div(offset, bucket_secs)
         IN  mark_heartbeats(IF offset >= 0 /\ idx < actual_buckets
                             THEN [has_heartbeat EXCEPT ![idx + 1] = TRUE]
                             ELSE has_heartbeat,
                             Tail(heartbeats), start, bucket_secs, actual_buckets)

\* the fill of each bucket's bar, from the first to the last
render_uptime_chart(heartbeats, start, end, num_buckets) ==
    LET total_secs == max(num_seconds(end - start), 1)
    IN  IF num_buckets = 0 THEN Panicked
        ELSE LET bucket_secs == max(div(total_secs, num_buckets), 1)
                 actual_buckets == div(total_secs, bucket_secs)
                 has_heartbeat ==
                     mark_heartbeats([i \in 1..actual_buckets |-> FALSE], heartbeats,
                                     start, bucket_secs, actual_buckets)
                 any_heartbeats ==
                     \E i \in 1..Len(heartbeats) :
                         heartbeats[i] >= start /\ heartbeats[i] <= end
             IN  Ok([i \in 1..actual_buckets |->
                       IF ~any_heartbeats THEN "muted"
                       ELSE IF has_heartbeat[i] THEN "status-online"
                       ELSE "status-offline"])

\* ------------------------------------------------------------ chart calls
\* every sequence of at most n elements of S
RECURSIVE SeqsUpTo(_, _)
SeqsUpTo(S, n) ==
    IF n = 0 THEN {<<>>}
    ELSE LET shorter == SeqsUpTo(S, n - 1)
         IN  shorter \cup {Append(q, x) : q \in shorter, x \in S}

\* the windows charted: they start one second after the epoch and are empty,
\* three seconds or three seconds and a half long
ChartStart == seconds(1)
ChartEnds == {ChartStart, ChartStart + seconds(3), ChartStart + seconds(3) + 1}

\* the instants of the events and heartbeats given to the charts: a second and
\* half a second before the window, its start, inside it, and three seconds in
ChartTimes == {ChartStart - seconds(1), ChartStart - 1, ChartStart,
               ChartStart + seconds(1) + 1, ChartStart + seconds(3)}

\* the events given to the charts: with the value 1 or 2, or with none
EventLists ==
    SeqsUpTo({MetricEvent("latency", v, EmptyMap, t) :
                 t \in ChartTimes, v \in {None, Some(1), Some(2)}},
             MaxChartEvents)

\* heartbeat histories: in the order of the clock
HeartbeatLists ==
    {h \in SeqsUpTo(ChartTimes, MaxChartEvents) :
        \A i \in 1..(Len(h) - 1) : h[i] <= h[i + 1]}

\* One chart function is about to be called on one input: compute_time_buckets
\* with 0 to 3 buckets of at least 0 to 2 seconds, bucket_events with 1 to 3
\* buckets of at least a second, aggregate_count, aggregate_sum and
\* aggregate_average with what bucket_events returned, and render_uptime_chart with 1 to 3 buckets and with heartbeats
\* at 0, 60 and 130 seconds in a window of 180 seconds.
ChartInit ==
    /\ now = 0
    /\ bots = EmptyMap
    /\ created = EmptyMap
    /\ hbFiles = EmptyMap
    /\ metrics = EmptyMap
    /\ mFiles = EmptyMap
    /\ lastIo = EmptyBag
    /\ disk = "ok"
    /\ tokens = EmptyMap
    /\ watch = <<>>
    /\ pc = [t \in Tasks |-> IF t = Pruner THEN "sleep" ELSE "idle"]
    /\ arg = [t \in Tasks |-> NoArg]
    /\ registryLock = NoLock
    /\ metricsLock = NoLock
    /\ regDone = [t \in Tasks |-> FALSE]
    /\ staleNames = {}
    /\ cycleRemoved = {}
    /\ \/ \E end \in ChartEnds, n \in 0..3, m \in 0..2 :
            ret = Call("compute_time_buckets", <<ChartStart, end, n, m>>, 0, Pending)
       \/ \E ev \in EventLists, end \in ChartEnds, n \in 1..3 :
            ret = Call("bucket_events", <<ev, ChartStart, end, n, 1>>, 0, Pending)
       \/ \E ev \in EventLists, end \in ChartEnds, n \in 1..3 :
            ret = Call("aggregate_average",
                       <<bucket_events(ev, ChartStart, end, n, 1).val>>, 0, Pending)
       \/ \E ev \in EventLists, end \in ChartEnds, n \in 1..3 :
            ret = Call("aggregate_count",
                       <<bucket_events(ev, ChartStart, end, n, 1).val>>, 0, Pending)
       \/ \E ev \in EventLists, end \in ChartEnds, n \in 1..3 :
            ret = Call("aggregate_sum",
                       <<bucket_events(ev, ChartStart, end, n, 1).val>>, 0, Pending)
       \/ \E h \in HeartbeatLists, end \in ChartEnds, n \in 1..3 :
            ret = Call("render_uptime_chart", <<h, ChartStart, end, n>>, 0, Pending)
       \/ ret = Call("render_uptime_chart",
                     <<<<0, seconds(60), seconds(130)>>, 0, seconds(180), 3>>, 0, Pending)

\* each call runs and its outcome is observed
ComputeTimeBuckets ==
    /\ ret.op = "compute_time_buckets" /\ ret.val = Pending
    /\ ret' = [ret EXCEPT !.val = compute_time_buckets(ret.args[1], ret.args[2],
                                                       ret.args[3], ret.args[4])]
    /\ UNCHANGED <<now, bots, created, hbFiles, metrics, mFiles, lastIo, disk, tokens, watch, taskVars>>

BucketEvents ==
    /\ ret.op = "bucket_events" /\ ret.val = Pending
    /\ ret' = [ret EXCEPT !.val = bucket_events(ret.args[1], ret.args[2], ret.args[3],
                                                ret.args[4], ret.args[5])]
    /\ UNCHANGED <<now, bots, created, hbFiles, metrics, mFiles, lastIo, disk, tokens, watch, taskVars>>

AggregateCount ==
    /\ ret.op = "aggregate_count" /\ ret.val = Pending
    /\ ret' = [ret EXCEPT !.val = Ok(aggregate_count(ret.args[1]))]
    /\ UNCHANGED <<now, bots, created, hbFiles, metrics, mFiles, lastIo, disk, tokens, watch, taskVars>>

AggregateSum ==
    /\ ret.op = "aggregate_sum" /\ ret.val = Pending
    /\ ret' = [ret EXCEPT !.val = Ok(aggregate_sum(ret.args[1]))]
    /\ UNCHANGED <<now, bots, created, hbFiles, metrics, mFiles, lastIo, disk, tokens, watch, taskVars>>

AggregateAverage ==
    /\ ret.op = "aggregate_average" /\ ret.val = Pending
    /\ ret' = [ret EXCEPT !.val = Ok(aggregate_average(ret.args[1]))]
    /\ UNCHANGED <<now, bots, created, hbFiles, metrics, mFiles, lastIo, disk, tokens, watch, taskVars>>

RenderUptimeChart ==
    /\ ret.op = "render_uptime_chart" /\ ret.val = Pending
    /\ ret' = [ret EXCEPT !.val = render_uptime_chart(ret.args[1], ret.args[2],
                                                      ret.args[3], ret.args[4])]
    /\ UNCHANGED <<now, bots, created, hbFiles, metrics, mFiles, lastIo, disk, tokens, watch, taskVars>>

ChartNext ==
    \/ ComputeTimeBuckets
    \/ BucketEvents
    \/ AggregateCount
    \/ AggregateSum
    \/ AggregateAverage
    \/ RenderUptimeChart

ChartSpec == ChartInit /\ [][ChartNext]_vars


\* ============================================================ properties
Sorted(h) == \A i \in 1..(Len(h) - 1) : h[i] <= h[i + 1]

\* the storage calls of the last direct store call, by kind
IoCalls(op) == {c \in BagToSet(lastIo) : c.op = op}

\* C4: with a non-decreasing clock, after any sequence of log_heartbeat,
\* ensure_registered, prune_heartbeat_history and remove every record's
\* heartbeat_history is sorted ascending (equal neighbours allowed).
C4_HistorySorted == \A n \in DOMAIN bots : Sorted(bots[n].heartbeat_history)

\* a prune has just trimmed one history (it rewrote the file) and a record
\* holds two heartbeats of different days, in order
C4_Witness ==
    /\ IoCalls("rewrite") # {}
    /\ \E n \in DOMAIN bots :
         /\ Len(bots[n].heartbeat_history) = 2
         /\ bots[n].heartbeat_history[1] < bots[n].heartbeat_history[2]

\* C5: last_heartbeat is the last element of a non-empty heartbeat_history,
\* and the time the record was created when the history is empty.
C5_LastHeartbeat ==
    \A n \in DOMAIN bots :
        LET h == bots[n].heartbeat_history
        IN  IF h # <<>>
            THEN bots[n].last_heartbeat = h[Len(h)]
            ELSE n \in DOMAIN created /\ bots[n].last_heartbeat = created[n]

\* a record registered on an earlier day without a heartbeat, beside a record
\* that holds heartbeats of two different days
C5_Witness ==
    /\ \E n \in DOMAIN bots :
         bots[n].heartbeat_history = <<>> /\ bots[n].last_heartbeat < now
    /\ \E n \in DOMAIN bots :
         /\ Len(bots[n].heartbeat_history) = 2
         /\ bots[n].heartbeat_history[1] < bots[n].last_heartbeat

\* C6: after prune_heartbeat_history(r) every heartbeat left is >= now - r, and
\* every record whose whole history was older than now - r is gone.
C6_Post(r) ==
    /\ \A n \in DOMAIN bots' :
         \A i \in 1..Len(bots'[n].heartbeat_history) :
             bots'[n].heartbeat_history[i] >= now - r
    /\ \A n \in DOMAIN bots :
         (\A i \in 1..Len(bots[n].heartbeat_history) :
              bots[n].heartbeat_history[i] < now - r)
         => n \notin DOMAIN bots'

C10_Post(n) ==
    LET old == IF n \in DOMAIN bots THEN bots[n].heartbeat_history ELSE <<>>
    IN  /\ DOMAIN bots' = DOMAIN bots \cup {n}
        /\ bots'[n].heartbeat_history = Append(old, now)
        /\ bots'[n].last_heartbeat = now
        /\ lastIo' = SetToBag({IoCall("append", n, <<now>>)})
        /\ BagCardinality(lastIo') = 1
        /\ DOMAIN hbFiles' = DOMAIN hbFiles \cup {n}
        /\ hbFiles'[n] = Append(load_lines(hbFiles, n), now)
        /\ \A m \in DOMAIN bots \ {n} : bots'[m] = bots[m]
        /\ \A m \in DOMAIN hbFiles \ {n} : hbFiles'[m] = hbFiles[m]
        /\ UNCHANGED <<metrics, mFiles>>

C10_LogHeartbeat == [][\A n \in Names : LogHeartbeat(n) => C10_Post(n)]_vars

\* a heartbeat was just appended to a record that already held one, while
\* another record exists
C10_Witness ==
    \E n \in DOMAIN bots :
        /\ lastIo = SetToBag({IoCall("append", n, <<now>>)})
        /\ Len(bots[n].heartbeat_history) = 2
        /\ bots[n].heartbeat_history[1] < now
        /\ DOMAIN bots # {n}


\* ------------------------------------------------------------ the two locks
RegistryWaiting == {"hb_lock", "rm_lock_reg", "bd_lock_reg", "rc_lock_reg", "pr_lock_reg"}
MetricsWaiting == {"rm_lock_met", "rc_lock_met", "ac_lock_met", "pr_lock_met"}
\* where the operations that use both locks are once they turn to the metrics lock
BothLocksSecondHalf ==
    {"rm_lock_met", "rm_cs_met", "rc_lock_met", "rc_cs_met", "pr_lock_met", "pr_cs_met"}

\* C1: no task holds the metrics lock while it holds or requests the registry
\* lock, and an operation that uses both locks (record_metric, the prune
\* cycle, render_charts) has acquired and released the registry lock before it
\* requests the metrics lock.
C1_LockOrder ==
    \A t \in Tasks :
        /\ Holds(metricsLock, t) =>
              ~Holds(registryLock, t) /\ pc[t] \notin RegistryWaiting
        /\ pc[t] \in MetricsWaiting => ~Holds(registryLock, t)
        /\ pc[t] \in BothLocksSecondHalf => regDone[t] /\ ~Holds(registryLock, t)

\* a metric is being recorded under the metrics lock by a handler that is done
\* with the registry, while the pruner holds the registry lock and the other
\* handler waits for it
C1_Witness ==
    \E t \in Handlers :
        /\ pc[t] = "rm_cs_met" /\ Holds(metricsLock, t) /\ regDone[t]
        /\ Holds(registryLock, Pruner)
        /\ \E u \in Handlers \ {t} : pc[u] \in RegistryWaiting

\* C3: each store has its own lock; a task that mutates a store holds that
\* store's write lock, a writer excludes every other reader and writer of the
\* same store, and a free lock is granted whatever the state of the other lock.
RegistryWriters == {"hb_cs", "rm_cs_reg", "pr_cs_reg"}
RegistryReaders == {"bd_cs_reg", "rc_cs_reg"}
MetricsWriters == {"rm_cs_met", "pr_cs_met"}
MetricsReaders == {"rc_cs_met", "ac_cs_met"}

Exclusive(l) ==
    /\ Cardinality(l.writers) <= 1
    /\ l.writers # {} => l.readers = {}

C3_Locks ==
    /\ Exclusive(registryLock)
    /\ Exclusive(metricsLock)
    /\ registryLock.writers = {t \in Tasks : pc[t] \in RegistryWriters}
    /\ registryLock.readers = {t \in Tasks : pc[t] \in RegistryReaders}
    /\ metricsLock.writers = {t \in Tasks : pc[t] \in MetricsWriters}
    /\ metricsLock.readers = {t \in Tasks : pc[t] \in MetricsReaders}
    /\ \A t \in Handlers :
         /\ pc[t] = "rm_lock_met" /\ metricsLock = NoLock
               => ENABLED record_metric_lock_metrics(t)
         /\ pc[t] = "hb_lock" /\ registryLock = NoLock => ENABLED heartbeat_lock(t)
         /\ pc[t] = "rc_lock_met" /\ metricsLock.writers = {}
               => ENABLED render_charts_lock_metrics(t)

\* the pruner writes the registry while a handler writes the metric store, and
\* the other handler is kept waiting by one of them
C3_Witness ==
    /\ registryLock.writers = {Pruner}
    /\ \E t \in Handlers :
         /\ metricsLock.writers = {t}
         /\ \E u \in Handlers \ {t} : pc[u] \in RegistryWaiting \cup MetricsWaiting

\* ------------------------------------------------------------ the prune cycle
Quiet == pc[Pruner] = "sleep" /\ \A t \in Handlers : pc[t] = "idle"

\* C7 (as claimed): at the end of a prune cycle every name the cycle removed
\* from the registry, by the history trim or as a stale name, is absent from
\* the metric store.
C7_RemovedFromBoth ==
    [][pruner_metrics_block => \A n \in cycleRemoved : n \notin DOMAIN metrics']_vars

\* C8 (as claimed): whenever no operation is in progress, every bot that has
\* events in the metric store has a record in the registry.
C8_MetricsBotsRegistered == Quiet => DOMAIN metrics \subseteq DOMAIN bots


\* ------------------------------------------------------------ progress
InProgress(t) == pc[t] \notin {"idle", "sleep"}

\* t stands in a lock call that cannot return in this state
Blocked(t) ==
    \/ pc[t] \in {"hb_lock", "rm_lock_reg", "pr_lock_reg"} /\ ~can_write(registryLock)
    \/ pc[t] \in {"bd_lock_reg", "rc_lock_reg"} /\ ~can_read(registryLock)
    \/ pc[t] \in {"rm_lock_met", "pr_lock_met"} /\ ~can_write(metricsLock)
    \/ pc[t] \in {"rc_lock_met", "ac_lock_met"} /\ ~can_read(metricsLock)

\* some task that is in the middle of its work can take its next step
NoDeadlock == (\E t \in Tasks : InProgress(t)) => \E t \in Tasks : InProgress(t) /\ ~Blocked(t)

RegistryReadersKeepOut == <>[](pc[Pruner] = "pr_lock_reg" /\ registryLock.readers # {})
MetricsReadersKeepOut == <>[](pc[Pruner] = "pr_lock_met" /\ metricsLock.readers # {})

StaleWithFreshHistory(n) ==
    /\ n \in DOMAIN bots
    /\ bots[n].last_heartbeat < now - DATA_RETENTION
    /\ \E i \in 1..Len(bots[n].heartbeat_history) :
         bots[n].heartbeat_history[i] >= now - DATA_RETENTION

\* C9: a prune cycle (retention 7 days) that meets a record whose
\* last_heartbeat is older than the window while its history holds an entry
\* inside the window removes the bot as a stale name, from the registry and
\* from the metric store, although the history trim leaves the record in place.
C9_StaleRemoved ==
    [][/\ pruner_registry_block =>
            \A n \in Names :
                StaleWithFreshHistory(n) =>
                    /\ n \in DOMAIN prune_heartbeat_history(CurReg, DATA_RETENTION, now).bots
                    /\ n \in staleNames'
                    /\ n \notin DOMAIN bots'
                    /\ n \notin DOMAIN hbFiles'
       /\ pruner_metrics_block =>
            \A n \in staleNames : n \notin DOMAIN metrics' /\ n \notin DOMAIN mFiles'
      ]_vars

\* the cycle's registry block has removed a bot as a stale name; the bot's
\* metrics, which the cycle is about to remove, hold an event inside the window
C9_Witness ==
    /\ pc[Pruner] = "pr_cs_met"
    /\ \E n \in staleNames :
         /\ n \notin DOMAIN bots
         /\ n \in DOMAIN metrics
         /\ metrics[n][1].timestamp >= now - DATA_RETENTION

\* C11: ensure_registered(name) leaves an existing record as it is, creates an
\* unknown one with an empty history and last_heartbeat = now, appends to no
\* history and makes no storage call.
C11_Post(n) ==
    /\ DOMAIN bots' = DOMAIN bots \cup {n}
    /\ \A m \in DOMAIN bots : bots'[m] = bots[m]
    /\ n \notin DOMAIN bots => bots'[n] = BotInfo(now, <<>>)
    /\ lastIo' = EmptyBag
    /\ UNCHANGED <<hbFiles, metrics, mFiles>>

C11_EnsureRegistered == [][\A n \in Names : EnsureRegistered(n) => C11_Post(n)]_vars

\* the last store call made no storage call, and a record created at this
\* instant without a heartbeat stands beside a record whose last heartbeat is
\* of an earlier day and has no file line for the new name
C11_Witness ==
    /\ lastIo = EmptyBag
    /\ \E n \in DOMAIN bots :
         /\ bots[n] = BotInfo(now, <<>>)
         /\ n \notin DOMAIN hbFiles
         /\ \E m \in DOMAIN bots \ {n} :
              /\ bots[m].heartbeat_history # <<>>
              /\ bots[m].last_heartbeat < now

\* C12: for a name unknown before, ensure_registered(name) followed by
\* get(name), with no heartbeat in between, returns a record with an empty
\* history and last_heartbeat = the registration time, and is_online(name, g)
\* evaluated before g has elapsed since the registration returns true.
C12_RegisteredThenRead ==
    [][\A n \in Names :
         /\ (Get(n) /\ n \in DOMAIN created)
              => ret'.val = Some(BotInfo(created[n], <<>>))
         /\ \A g \in Graces :
              (IsOnline(n, g) /\ n \in DOMAIN created /\ now - created[n] < g)
                  => ret'.val = TRUE]_vars

\* get was just called for a record registered at this instant, later than the
\* epoch, that holds no heartbeat, and returned it
C12_Witness ==
    /\ ret.op = "get"
    /\ ret.at = now
    /\ now > 0
    /\ ret.args[1] \in DOMAIN created
    /\ created[ret.args[1]] = now
    /\ ret.val = Some(BotInfo(now, <<>>))

\* C13: is_online(name, grace_period) is true exactly when a record for name
\* exists and now - last_heartbeat < grace_period (strictly); for an unknown
\* name it is false.
C13_IsOnline ==
    [][\A n \in Names, g \in Graces :
         IsOnline(n, g) =>
             /\ ret'.val \in BOOLEAN
             /\ ret'.val = TRUE <=> (n \in DOMAIN bots /\ now - bots[n].last_heartbeat < g)
             /\ n \notin DOMAIN bots => ret'.val = FALSE]_vars

\* is_online was just called with a positive grace period for a record whose
\* last heartbeat is exactly that old, and returned false
C13_Witness ==
    /\ ret.op = "is_online"
    /\ ret.at = now
    /\ ret.args[2] > 0
    /\ ret.args[1] \in DOMAIN bots
    /\ now - bots[ret.args[1]].last_heartbeat = ret.args[2]
    /\ ret.val = FALSE

\* C15: stale_bot_names(max_age) is exactly the set of registered names whose
\* last_heartbeat is strictly older than now - max_age, whatever their
\* heartbeat_history holds.
C15_StaleNames ==
    [][\A a \in Retentions :
         StaleBotNames(a) =>
             ret'.val = {n \in DOMAIN bots : bots[n].last_heartbeat < now - a}]_vars

\* stale_bot_names was just called and returned one name, of a record whose
\* history holds a heartbeat newer than the cutoff, and left out a record
\* whose last heartbeat is exactly at the cutoff
C15_Witness ==
    /\ ret.op = "stale_bot_names"
    /\ ret.at = now
    /\ \E n \in DOMAIN bots, m \in DOMAIN bots :
         /\ ret.val = {n}
         /\ \E i \in 1..Len(bots[n].heartbeat_history) :
              bots[n].heartbeat_history[i] >= now - ret.args[1]
         /\ bots[m].last_heartbeat = now - ret.args[1]

\* the events of one bot, none when the store does not know it
EventsOf(m, n) == IF n \in DOMAIN m THEN m[n] ELSE <<>>

\* C16: record(bot_name, event_id, value, tags, client_timestamp) appends
\* exactly one event at the tail of bot_name's sequence, creating the sequence
\* if absent, stamps it with the client's timestamp when there is one (even one
\* older than the events already stored) and with now otherwise, returns the
\* timestamp it stored, makes exactly one storage call, an append of that
\* event, and leaves every other bot's sequence as it was.
C16_Post(n, in) ==
    LET ts == IF in.ts = None THEN now ELSE in.ts[1]
        event == MetricEvent(in.event_id, in.value, in.tags, ts)
    IN  /\ DOMAIN metrics' = DOMAIN metrics \cup {n}
        /\ metrics'[n] = Append(EventsOf(metrics, n), event)
        /\ ret'.val = ts
        /\ ret'.val = metrics'[n][Len(metrics'[n])].timestamp
        /\ lastIo' = SetToBag({IoCall("append", n, <<event>>)})
        /\ BagCardinality(lastIo') = 1
        /\ DOMAIN mFiles' = DOMAIN mFiles \cup {n}
        /\ mFiles'[n] = Append(load_lines(mFiles, n), event)
        /\ \A m \in DOMAIN metrics \ {n} : metrics'[m] = metrics[m]
        /\ \A m \in DOMAIN mFiles \ {n} : mFiles'[m] = mFiles[m]
        /\ UNCHANGED <<bots, hbFiles>>

\* (a step of RecordCall(n, in) leaves <<n, in>> in ret'.args)
C16_Record ==
    [][(ret'.op = "record" /\ RecordCall(ret'.args[1], ret'.args[2]))
          => C16_Post(ret'.args[1], ret'.args[2])]_vars

\* record was just called with a client timestamp older than the event the
\* bot already held, stored it behind that event and returned it, while
\* another bot holds an event
C16_Witness ==
    /\ ret.op = "record"
    /\ ret.at = now
    /\ ret.args[2].ts # None
    /\ LET n == ret.args[1]
       IN  /\ n \in DOMAIN metrics
           /\ Len(metrics[n]) = 2
           /\ metrics[n][2].timestamp = ret.val
           /\ metrics[n][1].timestamp > ret.val
           /\ lastIo = SetToBag({IoCall("append", n, <<metrics[n][2]>>)})
           /\ DOMAIN metrics # {n}

\* the events of a sequence at the indices of I, in the sequence's order
RECURSIVE Pick(_, _)
Pick(events, I) ==
    IF events = <<>> THEN <<>>
    ELSE LET k == Len(events)
         IN  Pick(SubSeq(events, 1, k - 1), I)
                 \o (IF k \in I THEN <<events[k]>> ELSE <<>>)

\* the indices of the stored events of bot n that a query asks for
Matching(n, id, start, end, f) ==
    {i \in 1..Len(EventsOf(metrics, n)) :
        LET e == metrics[n][i]
        IN  /\ e.event_id = id
            /\ start <= e.timestamp
            /\ e.timestamp <= end
            /\ \A k \in DOMAIN f : k \in DOMAIN e.tags /\ e.tags[k] = f[k]}

\* C17: query_window(bot, event_id, start, end, tag_filters) returns exactly
\* the stored events of that bot with that event id, a timestamp in
\* [start, end] (both ends included) and every filter key with the filter's
\* value, in storage order, whether the sequence is sorted or not.
\* (a step of QueryWindow(n, id, <<start, end>>, f) leaves its arguments in ret'.args)
C17_QueryWindow ==
    [][LET a == ret'.args
       IN  (ret'.op = "query_window" /\ QueryWindow(a[1], a[2], <<a[3], a[4]>>, a[5]))
               => ret'.val = Pick(EventsOf(metrics, a[1]),
                                  Matching(a[1], a[2], a[3], a[4], a[5]))]_vars

\* query_window was just called with a tag filter on a sequence that is not
\* sorted by timestamp and returned one event of three: one stamped exactly
\* with the start or the end of the window, while an event of the same id
\* inside the window lacks the filter's key
C17_Witness ==
    /\ ret.op = "query_window"
    /\ ret.at = now
    /\ ret.args[5] # EmptyMap
    /\ Len(ret.val) = 1
    /\ ret.val[1].timestamp \in {ret.args[3], ret.args[4]}
    /\ LET events == EventsOf(metrics, ret.args[1])
       IN  /\ Len(events) = 3
           /\ \E i \in 1..2 : events[i].timestamp > events[i + 1].timestamp
           /\ \E i \in 1..3 :
                /\ events[i].event_id = ret.args[2]
                /\ events[i].timestamp >= ret.args[3]
                /\ events[i].timestamp <= ret.args[4]
                /\ events[i].tags = EmptyMap

\* C18: record(bot, id, v, tags, None) on a store that holds no other event of
\* that bot and id, followed at once by query_window(bot, id, epoch, now + 1,
\* no filter), returns exactly one event, which carries v.
C18_WriteThenRead ==
    [][LET a == ret'.args
           in == ret.args[2]
       IN  (/\ ret'.op = "query_window"
            /\ QueryWindow(a[1], a[2], <<a[3], a[4]>>, a[5])
            /\ a[3] = 0 /\ a[4] = now + 1 /\ a[5] = EmptyMap
            /\ ret.op = "record"
            /\ ret.at = now
            /\ ret.args[1] = a[1]
            /\ in.event_id = a[2]
            /\ in.ts = None
            /\ lastIo = SetToBag({IoCall("append", a[1],
                                         <<MetricEvent(a[2], in.value, in.tags, now)>>)})
            /\ Cardinality({i \in 1..Len(EventsOf(metrics, a[1])) :
                               metrics[a[1]][i].event_id = a[2]}) = 1)
               => /\ Len(ret'.val) = 1
                  /\ ret'.val[1].value = in.value]_vars

\* query_window(bot, id, epoch, now + 1, no filter) was just called, later
\* than the epoch, right after the record call that stored the bot's one
\* event of that id, untagged, beside an event of another id, and returned
\* that event with its value
C18_Witness ==
    /\ ret.op = "query_window"
    /\ ret.at = now
    /\ now > 0
    /\ ret.args[3] = 0 /\ ret.args[4] = now + 1 /\ ret.args[5] = EmptyMap
    /\ Len(ret.val) = 1
    /\ ret.val[1] = MetricEvent(ret.args[2], Some(42), EmptyMap, now)
    /\ lastIo = SetToBag({IoCall("append", ret.args[1], ret.val)})
    /\ Len(EventsOf(metrics, ret.args[1])) = 2
    /\ metrics[ret.args[1]][1].event_id # ret.args[2]

\* how many events prune pops from the front of a sequence: the length of its
\* longest prefix made of events older than the cutoff
OldPrefix(events, cutoff) ==
    Cardinality({j \in 1..Len(events) : \A i \in 1..j : events[i].timestamp < cutoff})

\* C20: prune drops from each bot's sequence its longest prefix of events
\* older than now - retention, stopping at the first event that is not, then
\* removes every bot left with no event from the map and its file; afterwards
\* no bot of the store has an empty sequence and every sequence starts with an
\* event that is not older than the cutoff.
C20_Post ==
    LET cutoff == now - DATA_RETENTION
    IN  /\ \A n \in DOMAIN metrics :
             LET rest == SubSeq(metrics[n], OldPrefix(metrics[n], cutoff) + 1,
                                Len(metrics[n]))
             IN  IF rest = <<>>
                 THEN n \notin DOMAIN metrics' /\ n \notin DOMAIN mFiles'
                 ELSE n \in DOMAIN metrics' /\ metrics'[n] = rest
        /\ DOMAIN metrics' \subseteq DOMAIN metrics
        /\ \A n \in DOMAIN metrics' :
             metrics'[n] # <<>> /\ metrics'[n][1].timestamp >= cutoff
        /\ UNCHANGED <<bots, hbFiles>>

C20_Prune == [][Prune => C20_Post]_vars

\* prune has just removed one bot's file and rewritten another's, whose
\* sequence keeps an event older than the cutoff behind one that is not
C20_Witness ==
    /\ IoCalls("remove") # {}
    /\ \E c \in IoCalls("rewrite") :
         /\ c.key \in DOMAIN metrics
         /\ metrics[c.key] = c.lines
         /\ Len(c.lines) = 2
         /\ c.lines[1].timestamp >= now - DATA_RETENTION
         /\ c.lines[2].timestamp < now - DATA_RETENTION

\* C14: remove(name) of the registry and remove_bot(name) of the metric store
\* delete name's entry from the map and name's file and touch nothing else;
\* applied a second time either one changes nothing, and applied to an unknown
\* name it leaves the map as it was.
C14_Post(n, map, files, map2, files2, again) ==
    /\ map2 = Del(map, n)
    /\ n \notin DOMAIN map2
    /\ n \notin DOMAIN files2
    /\ \A m \in DOMAIN files \ {n} : m \in DOMAIN files2 /\ files2[m] = files[m]
    /\ n \notin DOMAIN map => map2 = map
    /\ again[1] = map2
    /\ again[2] = files2

C14_RemoveIdempotent ==
    [][\A n \in Names :
         /\ Remove(n) =>
              /\ C14_Post(n, bots, hbFiles, bots', hbFiles',
                          LET R2 == remove(Reg(bots', hbFiles', EmptyBag), n)
                          IN  <<R2.bots, R2.files>>)
              /\ UNCHANGED <<metrics, mFiles>>
         /\ RemoveBot(n) =>
              /\ C14_Post(n, metrics, mFiles, metrics', mFiles',
                          LET M2 == remove_bot(Met(metrics', mFiles', EmptyBag), n)
                          IN  <<M2.metrics, M2.files>>)
              /\ UNCHANGED <<bots, hbFiles>>]_vars

\* the last store call removed a bot from one store only: the registry no
\* longer knows it and its heartbeat file is gone while the metric store still
\* holds its events and their file, and another bot keeps its record and file
C14_Witness ==
    \E n \in Names :
        /\ lastIo = SetToBag({IoCall("remove", n, <<>>)})
        /\ n \notin DOMAIN bots
        /\ n \notin DOMAIN hbFiles
        /\ n \in DOMAIN metrics
        /\ n \in DOMAIN mFiles
        /\ \E m \in DOMAIN bots : m \in DOMAIN hbFiles

\* C19: asking about a bot a store does not know is no error: get returns
\* None, is_online false, query_window and event_ids an empty Vec,
\* available_tags an empty map and has_values false, and no record or
\* sequence is created for the bot.
C19_UnknownBot ==
    [][LET a == ret'.args
           unregistered == a[1] \notin DOMAIN bots
           unmeasured == a[1] \notin DOMAIN metrics
       IN  /\ (ret'.op = "get" /\ Get(a[1]) /\ unregistered)
                => ret'.val = None /\ UNCHANGED <<bots, hbFiles>>
           /\ (ret'.op = "is_online" /\ IsOnline(a[1], a[2]) /\ unregistered)
                => ret'.val = FALSE /\ UNCHANGED <<bots, hbFiles>>
           /\ (ret'.op = "query_window"
                 /\ QueryWindow(a[1], a[2], <<a[3], a[4]>>, a[5]) /\ unmeasured)
                => ret'.val = <<>> /\ UNCHANGED <<metrics, mFiles>>
           /\ (ret'.op = "event_ids" /\ EventIds(a[1]) /\ unmeasured)
                => ret'.val = <<>> /\ UNCHANGED <<metrics, mFiles>>
           /\ (ret'.op = "available_tags" /\ AvailableTags(a[1], a[2]) /\ unmeasured)
                => ret'.val = EmptyMap /\ UNCHANGED <<metrics, mFiles>>
           /\ (ret'.op = "has_values" /\ HasValues(a[1], a[2]) /\ unmeasured)
                => ret'.val = FALSE /\ UNCHANGED <<metrics, mFiles>>]_vars

\* has_values was just called for a bot that the registry knows and the metric
\* store does not, while the store holds a valued event of that id for another
\* bot, and returned false
C19_Witness ==
    /\ ret.op = "has_values"
    /\ ret.at = now
    /\ ret.val = FALSE
    /\ ret.args[1] \in DOMAIN bots
    /\ ret.args[1] \notin DOMAIN metrics
    /\ \E m \in DOMAIN metrics :
         \E i \in 1..Len(metrics[m]) :
             metrics[m][i].event_id = ret.args[2] /\ metrics[m][i].value # None

\* C21: retention of the metric store is best-effort. prune keeps every event
\* that stands behind an event that is not older than the cutoff, however old
\* it is itself: an event recorded with an explicit timestamp older than the
\* cutoff after an in-window event is still stored after prune, and after
\* every later prune that finds an in-window event before it.
C21_Post ==
    LET cutoff == now - DATA_RETENTION
    IN  \A n \in DOMAIN metrics :
          \A j \in 1..Len(metrics[n]) :
            (\E i \in 1..(j - 1) : metrics[n][i].timestamp >= cutoff)
            => /\ n \in DOMAIN metrics'
               /\ Len(metrics'[n]) >= Len(metrics[n]) - j + 1
               /\ metrics'[n][Len(metrics'[n]) - (Len(metrics[n]) - j)] = metrics[n][j]

C21_StaleKept == [][Prune => C21_Post]_vars

\* prune has just run on a sequence that starts with an event stamped by the
\* server at this instant and goes on with an event a client stamped older
\* than the cutoff: both are still stored
C21_Witness ==
    \E c \in IoCalls("rewrite") :
        /\ c.key \in DOMAIN metrics
        /\ metrics[c.key] = c.lines
        /\ Len(c.lines) >= 2
        /\ c.lines[1].timestamp = now
        /\ c.lines[2].timestamp < now - DATA_RETENTION
        /\ c.lines[2].timestamp <= 1

\* what the front-trimming loop of the registry leaves of a history
HistoryRest(h, cutoff) ==
    SubSeq(h, Cardinality({j \in 1..Len(h) : \A i \in 1..j : h[i] < cutoff}) + 1, Len(h))

\* what the front-trimming loop of the metric store leaves of a sequence
EventsRest(events, cutoff) == SubSeq(events, OldPrefix(events, cutoff) + 1, Len(events))

\* the maps each mutating call leaves in memory when every write succeeds
C22_LogHeartbeat(n) ==
    bots' = Put(bots, n, BotInfo(now, Append(IF n \in DOMAIN bots
                                              THEN bots[n].heartbeat_history ELSE <<>>, now)))
C22_PruneHistory(r) ==
    bots' = [n \in {m \in DOMAIN bots : HistoryRest(bots[m].heartbeat_history, now - r) # <<>>}
               |-> BotInfo(bots[n].last_heartbeat,
                           HistoryRest(bots[n].heartbeat_history, now - r))]
C22_Record(n, in) ==
    LET ts == IF in.ts = None THEN now ELSE in.ts[1]
    IN  /\ metrics' = Put(metrics, n, Append(EventsOf(metrics, n),
                                             MetricEvent(in.event_id, in.value, in.tags, ts)))
        /\ ret'.val = ts
C22_PruneEvents ==
    metrics' = [n \in {m \in DOMAIN metrics :
                         EventsRest(metrics[m], now - DATA_RETENTION) # <<>>}
                  |-> EventsRest(metrics[n], now - DATA_RETENTION)]

\* a store call that left the metric store / the registry as it was
RegistryStep == UNCHANGED <<now, disk, tokens, watch, metrics, ret>>
MetricsStep == UNCHANGED <<now, disk, tokens, watch, bots, created>>

\* C22: a failure of the durable storage does not abort the in-memory
\* mutation: while the volume fails, log_heartbeat, record,
\* prune_heartbeat_history, prune, remove and remove_bot leave in memory
\* exactly the map they leave when every write succeeds, and record returns
\* the timestamp it stored.
C22_IoFailureKeepsMutation ==
    [][io_fails =>
         /\ \A n \in DurableNames :
              /\ (RegistryStep /\ LogHeartbeat(n)) => C22_LogHeartbeat(n)
              /\ (RegistryStep /\ Remove(n)) => bots' = Del(bots, n)
              /\ (MetricsStep /\ RemoveBot(n)) => metrics' = Del(metrics, n)
         /\ \A r \in Retentions : (RegistryStep /\ PruneHistory(r)) => C22_PruneHistory(r)
         /\ (MetricsStep /\ Prune) => C22_PruneEvents
         /\ (ret'.op = "record" /\ RecordCall(ret'.args[1], ret'.args[2]))
              => C22_Record(ret'.args[1], ret'.args[2])]_vars

\* the volume fails and record has just pushed an event whose append failed:
\* the event is in memory, the caller got its timestamp, and the bot's file
\* does not hold it
C22_Witness ==
    /\ io_fails
    /\ ret.op = "record"
    /\ ret.at = now
    /\ lastIo = SetToBag({IoCall("append", ret.args[1],
                                 <<metrics[ret.args[1]][Len(metrics[ret.args[1]])]>>)})
    /\ ret.val = metrics[ret.args[1]][Len(metrics[ret.args[1]])].timestamp
    /\ Len(load_lines(mFiles, ret.args[1])) < Len(metrics[ret.args[1]])

\* C30: the durable logs mirror the stores. As long as no storage call has
\* failed, after any sequence of log_heartbeat, ensure_registered, record,
\* prune_heartbeat_history, prune, remove and remove_bot the heartbeat file of
\* every bot holds exactly its in-memory heartbeat_history (a bot with no
\* record or with an empty history has no heartbeat file) and its metric file
\* holds exactly its in-memory event sequence (a bot with no events has no
\* metric file); a history that was trimmed and is not empty has been
\* rewritten in full.
C30_DurableMirror ==
    disk = "ok" =>
      \A n \in Names :
        /\ IF n \in DOMAIN bots /\ bots[n].heartbeat_history # <<>>
           THEN n \in DOMAIN hbFiles /\ hbFiles[n] = bots[n].heartbeat_history
           ELSE n \notin DOMAIN hbFiles
        /\ IF n \in DOMAIN metrics /\ metrics[n] # <<>>
           THEN n \in DOMAIN mFiles /\ mFiles[n] = metrics[n]
           ELSE n \notin DOMAIN mFiles

\* no storage call has failed and prune_heartbeat_history has just trimmed a
\* history that held an older heartbeat too: the one heartbeat left was
\* written back as the whole file (the one-line rewrite is the registry's: the
\* bot's metric file holds two events)
C30_Witness ==
    /\ disk = "ok"
    /\ \E c \in IoCalls("rewrite") :
         /\ c.key \in DOMAIN bots
         /\ c.key \in DOMAIN metrics
         /\ Len(mFiles[c.key]) = 2
         /\ Len(c.lines) = 1
         /\ bots[c.key].heartbeat_history = <<now>>
         /\ hbFiles[c.key] = <<now>>

\* C23: lock poisoning is fatal. Once a task has panicked while it held a
\* store's write lock, no operation reads or mutates either store: neither
\* store nor its files change any more and no task is given a guard of either
\* lock.
C23_PoisonIsFatal ==
    [][(registryLock.poisoned \/ metricsLock.poisoned)
          => /\ UNCHANGED <<bots, hbFiles, metrics, mFiles>>
             /\ \A t \in Tasks :
                  /\ Holds(registryLock', t) => Holds(registryLock, t)
                  /\ Holds(metricsLock', t) => Holds(metricsLock, t)]_vars

\* -------------------------------------------------- properties of the charts
\* the call of op has run
Ran(op) == ret.op = op /\ ret.val.state # "pending"

\* the number of elements of q that satisfy P
Count(q, P(_)) == Cardinality({i \in 1..Len(q) : P(q[i])})

\* C24: compute_time_buckets(start, end, n, minSecs) always returns at least
\* one bucket, all the buckets it returns have the same width, and that width
\* is at least minSecs seconds.
C24_BucketsWellFormed ==
    Ran("compute_time_buckets") =>
        /\ ret.val.state = "ok"
        /\ Len(ret.val.val) >= 1
        /\ \A i \in 1..Len(ret.val.val) :
             /\ ret.val.val[i].end - ret.val.val[i].start
                  = ret.val.val[1].end - ret.val.val[1].start
             /\ ret.val.val[i].end - ret.val.val[i].start >= seconds(ret.args[4])

\* C25: compute_time_buckets never divides by zero, whatever start, end,
\* num_buckets and min_bucket_secs are; its bucket width is
\* max(total_secs / num_buckets, min_bucket_secs) and its bucket count is
\* max(total_secs / width, 1), with integer division.
C25_NeverDividesByZero ==
    Ran("compute_time_buckets") =>
        /\ ret.val.state # "panic"
        /\ LET total_secs == num_seconds(ret.args[2] - ret.args[1])
               width == max(div(total_secs, ret.args[3]), ret.args[4])
           IN  /\ Len(ret.val.val) = max(div(total_secs, width), 1)
               /\ \A i \in 1..Len(ret.val.val) :
                    ret.val.val[i].end - ret.val.val[i].start = seconds(width)

\* the events of all the buckets, counted
RECURSIVE Bucketed(_)
Bucketed(buckets) ==
    IF buckets = <<>> THEN 0 ELSE Len(Head(buckets).events) + Bucketed(Tail(buckets))

\* C26: bucket_events drops no event whose timestamp lies in [start, end] and
\* puts every event it keeps in exactly one bucket: the events of the buckets
\* and the input events with timestamp < start are together as many as the
\* input events.
C26_EventsAccounted ==
    Ran("bucket_events") =>
        LET events == ret.args[1]
            start == ret.args[2]
            end == ret.args[3]
            Before(e) == e.timestamp < start
            Within(e) == e.timestamp >= start /\ e.timestamp <= end
        IN  /\ ret.val.state = "ok"
            /\ Bucketed(ret.val.val) + Count(events, Before) = Len(events)
            /\ \A i \in 1..Len(events) :
                 Within(events[i]) =>
                     \E b \in 1..Len(ret.val.val) :
                         \E j \in 1..Len(ret.val.val[b].events) :
                             ret.val.val[b].events[j] = events[i]

\* the values present in the events, added up, and their number
Valued(e) == e.value # None
RECURSIVE Total(_)
Total(events) ==
    IF events = <<>> THEN 0
    ELSE (IF Valued(Head(events)) THEN Head(events).value[1] ELSE 0) + Total(Tail(events))

\* C27: aggregate_average returns, for each bucket, the arithmetic mean of the
\* values present in the bucket's events, and 0 for a bucket that has no
\* valued event, a bucket of valueless events included.
C27_AverageIsMean ==
    Ran("aggregate_average") =>
        /\ ret.val.state = "ok"
        /\ Len(ret.val.val) = Len(ret.args[1])
        /\ \A i \in 1..Len(ret.args[1]) :
             LET events == ret.args[1][i].events
                 avg == ret.val.val[i][2]
             IN  /\ avg.den > 0
                 /\ IF Count(events, Valued) = 0 THEN avg.num = 0
                    ELSE avg.num * Count(events, Valued) = Total(events) * avg.den

\* a bucket of valueless events averages 0 next to a bucket whose two values
\* average to a fraction
C27_Witness ==
    /\ Ran("aggregate_average")
    /\ \E i, j \in 1..Len(ret.args[1]) :
         /\ ret.args[1][i].events # <<>>
         /\ Count(ret.args[1][i].events, Valued) = 0
         /\ ret.val.val[i][2].num = 0
         /\ Count(ret.args[1][j].events, Valued) = 2
         /\ ret.val.val[j][2] = [num |-> 3, den |-> 2]

\* the width of the uptime chart's buckets, in seconds, and their number
UptimeBucketSecs ==
    max(div(max(num_seconds(ret.args[3] - ret.args[2]), 1), ret.args[4]), 1)
UptimeBuckets == div(max(num_seconds(ret.args[3] - ret.args[2]), 1), UptimeBucketSecs)

\* C28: in the uptime chart, a heartbeat whose timestamp equals the end of the
\* last bucket counts toward the last bucket, which is marked as having a
\* heartbeat.
C28_EndBoundaryCounts ==
    Ran("render_uptime_chart") =>
        /\ ret.val.state = "ok"
        /\ (\E i \in 1..Len(ret.args[1]) :
               ret.args[1][i] = ret.args[2] + seconds(UptimeBucketSecs * UptimeBuckets))
             => ret.val.val[UptimeBuckets] = "status-online"

\* C29: in the uptime chart, bucket i is marked online if and only if a
\* heartbeat has its timestamp in [start + i * width, start + (i + 1) * width).
C29_OnlineIffHeartbeat ==
    Ran("render_uptime_chart") =>
        /\ ret.val.state = "ok"
        /\ \A i \in 0..(Len(ret.val.val) - 1) :
             ret.val.val[i + 1] = "status-online"
               <=> \E k \in 1..Len(ret.args[1]) :
                      /\ ret.args[1][k] >= ret.args[2] + seconds(UptimeBucketSecs * i)
                      /\ ret.args[1][k] < ret.args[2] + seconds(UptimeBucketSecs * (i + 1))

\* -------------------------------------------- properties of the whole stores
\* the events of each bot are in the order of their timestamps
EventsSorted(m) ==
    \A n \in DOMAIN m : \A i \in 1..(Len(m[n]) - 1) : m[n][i].timestamp <= m[n][i + 1].timestamp

\* C31: when every record call leaves the timestamp to the server and the
\* clock never goes back, after any sequence of record, prune and remove_bot
\* every bot's events are sorted ascending by timestamp, and after prune every
\* event still stored has timestamp >= now - retention.
C31_SortedAndRecent ==
    [][/\ EventsSorted(metrics')
       /\ (MetricsStep /\ Prune)
            => \A n \in DOMAIN metrics' : \A i \in 1..Len(metrics'[n]) :
                  metrics'[n][i].timestamp >= now - DATA_RETENTION]_vars

\* prune has just rewritten the file of a bot that has no registry record:
\* it dropped the events of the first day and kept the two of this day
C31_Witness ==
    /\ now = ClockStep
    /\ \E c \in IoCalls("rewrite") :
         /\ c.key \in DOMAIN metrics
         /\ c.key \notin DOMAIN bots
         /\ Len(c.lines) = 2
         /\ Len(metrics[c.key]) = 2
         /\ \A i \in 1..2 : metrics[c.key][i].timestamp = now

\* C32: bucket_events puts each event with timestamp >= start in the bucket
\* of index min(floor((timestamp - start) / width), count - 1) and drops each
\* event with timestamp < start; so an event at or past the end of the last
\* bucket is in the last bucket, and every event of another bucket has its
\* timestamp in that bucket's [start, end) as compute_time_buckets returns it.
C32_BucketIndex ==
    Ran("bucket_events") =>
        /\ ret.val.state = "ok"
        /\ LET events == ret.args[1]
               start == ret.args[2]
               width == seconds(max(div(num_seconds(ret.args[3] - start), ret.args[4]),
                                    ret.args[5]))
               count == Len(ret.val.val)
               time_buckets ==
                   compute_time_buckets(start, ret.args[3], ret.args[4], ret.args[5]).val
           IN  /\ \A b \in 1..count :
                    LET Here(e) == /\ e.timestamp >= start
                                   /\ min((e.timestamp - start) \div width, count - 1) = b - 1
                    IN  ret.val.val[b].events = SelectSeq(events, Here)
               /\ \A b \in 1..(count - 1) :
                    \A j \in 1..Len(ret.val.val[b].events) :
                        /\ ret.val.val[b].events[j].timestamp >= time_buckets[b].start
                        /\ ret.val.val[b].events[j].timestamp < time_buckets[b].end

\* C33: aggregate_count and aggregate_sum return one entry per bucket, in the
\* buckets' order and with each bucket's start; the count is the number of the
\* bucket's events, valueless ones included, and the sum is the sum of the
\* values that are present, so a bucket of valueless events has count > 0 and
\* sum 0.
C33_CountAndSum ==
    (Ran("aggregate_count") \/ Ran("aggregate_sum")) =>
        /\ ret.val.state = "ok"
        /\ Len(ret.val.val) = Len(ret.args[1])
        /\ \A i \in 1..Len(ret.args[1]) :
             /\ ret.val.val[i][1] = ret.args[1][i].start
             /\ ret.val.val[i][2] = IF ret.op = "aggregate_count"
                                    THEN Len(ret.args[1][i].events)
                                    ELSE Total(ret.args[1][i].events)

\* the sum of a bucket of two valueless events is 0, next to a bucket that
\* sums the value of one of its two events
C33_Witness ==
    /\ Ran("aggregate_sum")
    /\ \E i, j \in 1..Len(ret.args[1]) :
         /\ Len(ret.args[1][i].events) = 2
         /\ Count(ret.args[1][i].events, Valued) = 0
         /\ ret.val.val[i][2] = 0
         /\ Len(ret.args[1][j].events) = 1
         /\ ret.val.val[j][2] = 2

\* a stored event of the bot has the event id and carries a value
CarriesValue(m, n, id) ==
    \E i \in 1..Len(EventsOf(m, n)) : m[n][i].event_id = id /\ m[n][i].value # None

\* C34: event_ids(bot) returns the distinct event ids of the bot's stored
\* events, each once, in ascending lexicographic order; has_values(bot, id) is
\* true if and only if a stored event of the bot with that id carries a value,
\* so what it answers turns from true to false only through prune or
\* remove_bot.
C34_IdsAndValues ==
    [][/\ (ret' # ret /\ ret'.op = "event_ids")
            => /\ {ret'.val[i] : i \in 1..Len(ret'.val)}
                    = {e.event_id : e \in {EventsOf(metrics, ret'.args[1])[i] :
                                             i \in 1..Len(EventsOf(metrics, ret'.args[1]))}}
               /\ ret'.val \in {<<>>, <<"errors">>, <<"latency">>, <<"errors", "latency">>}
       /\ (ret' # ret /\ ret'.op = "has_values")
            => (ret'.val <=> CarriesValue(metrics, ret'.args[1], ret'.args[2]))
       /\ \A n \in Names, id \in {"latency", "errors"} :
            (CarriesValue(metrics, n, id) /\ ~CarriesValue(metrics', n, id))
              => (Prune \/ RemoveBot(n))]_vars

\* has_values answered true for an id of a bot and a prune then dropped the
\* one event that carried a value: a valueless event of the id is still stored
C34_Witness ==
    /\ ret.op = "has_values"
    /\ ret.val
    /\ ret.at = now
    /\ ~CarriesValue(metrics, ret.args[1], ret.args[2])
    /\ \E i \in 1..Len(EventsOf(metrics, ret.args[1])) :
         metrics[ret.args[1]][i].event_id = ret.args[2]

\* C35: the queries get, is_online, stale_bot_names, query_window, event_ids,
\* available_tags and has_values leave the records and events of both stores
\* and every file as they are, and what they return is decided by the stores'
\* memory and the clock, never by the files.
C35_ReadsArePure ==
    [][(ret' # ret /\ ret'.op # "record")
         => /\ UNCHANGED <<bots, metrics, hbFiles, mFiles>>
            /\ ret'.op \in {"get", "is_online", "stale_bot_names", "query_window",
                            "event_ids", "available_tags", "has_values"}
            /\ ret'.op = "get" => ret'.val = get(bots, ret'.args[1])
            /\ ret'.op = "is_online"
                 => ret'.val = is_online(bots, ret'.args[1], ret'.args[2], now)
            /\ ret'.op = "stale_bot_names"
                 => ret'.val = stale_bot_names(bots, ret'.args[1], now)
            /\ ret'.op = "query_window"
                 => ret'.val = query_window(metrics, ret'.args[1], ret'.args[2],
                                            ret'.args[3], ret'.args[4], ret'.args[5])
            /\ ret'.op = "event_ids" => ret'.val = event_ids(metrics, ret'.args[1])
            /\ ret'.op = "available_tags"
                 => ret'.val = available_tags(metrics, ret'.args[1], ret'.args[2])
            /\ ret'.op = "has_values"
                 => ret'.val = has_values(metrics, ret'.args[1], ret'.args[2])]_vars

\* get has just returned the record of a bot whose heartbeat file does not
\* exist, while the metric store holds events that its file does not
C35_Witness ==
    /\ ret.op = "get"
    /\ ret.at = now
    /\ ret.val # None
    /\ ret.args[1] \in DOMAIN bots
    /\ ret.args[1] \notin DOMAIN hbFiles
    /\ \E n \in DOMAIN metrics : n \notin DOMAIN mFiles

\* C36 as stated: in every registry state reached through log_heartbeat,
\* ensure_registered, prune_heartbeat_history and remove, the stale names
\* taken directly after the history trim, at the same instant, are none: the
\* pruner's removal of stale bots removes no bot.
C36_NoStaleAfterPrune == [][pruner_registry_block => staleNames' = {}]_vars

\* C36, amended: a bot that is stale directly after the history trim had a
\* history that was not in ascending order; under a clock that never goes
\* back (every history sorted) the stale names after the trim are none.
C36_StaleOnlyIfUnsorted ==
    [][pruner_registry_block
         => \A n \in staleNames' :
               n \in DOMAIN bots /\ ~Sorted(bots[n].heartbeat_history)]_vars

\* the pruner's registry block has just removed a bot whose history the trim
\* emptied and kept another with its heartbeats, and found no stale name
C36_Witness ==
    /\ pc[Pruner] = "pr_lock_met"
    /\ staleNames = {}
    /\ cycleRemoved # {}
    /\ \E n \in DOMAIN bots : bots[n].heartbeat_history # <<>>

\* the elements of a history, and the events of a sequence, that are not
\* older than the cutoff
RecentBeats(h, cutoff) == LET Recent(ts) == ts >= cutoff IN SelectSeq(h, Recent)
RecentEvents(events, cutoff) ==
    LET Recent(e) == e.timestamp >= cutoff IN SelectSeq(events, Recent)

\* what the pruner's registry block keeps of the records that survive it
RegistryKeepsWindow ==
    pruner_registry_block =>
        \A n \in DOMAIN bots' :
            /\ bots'[n].last_heartbeat = bots[n].last_heartbeat
            /\ RecentBeats(bots'[n].heartbeat_history, now - DATA_RETENTION)
                 = RecentBeats(bots[n].heartbeat_history, now - DATA_RETENTION)

\* C37 as stated: pruning discards no in-window data: the history trim removes
\* no heartbeat with timestamp >= now - retention from a record that survives
\* and leaves its last_heartbeat as it is, and a prune cycle deletes no metric
\* event with timestamp >= now - retention, however it interleaves with
\* ingestion.
C37_PruneKeepsWindow ==
    [][/\ RegistryKeepsWindow
       /\ pruner_metrics_block =>
            \A n \in DOMAIN metrics :
                RecentEvents(metrics[n], now - DATA_RETENTION) # <<>>
                  => /\ n \in DOMAIN metrics'
                     /\ RecentEvents(metrics'[n], now - DATA_RETENTION)
                          = RecentEvents(metrics[n], now - DATA_RETENTION)]_vars

\* C37, amended: the same, except for the events of a bot the cycle removed
\* from the registry as a stale name: those are deleted with the bot, in
\* window or not.
C37_PruneKeepsWindowUnlessStale ==
    [][/\ RegistryKeepsWindow
       /\ pruner_metrics_block =>
            \A n \in DOMAIN metrics \ staleNames :
                RecentEvents(metrics[n], now - DATA_RETENTION) # <<>>
                  => /\ n \in DOMAIN metrics'
                     /\ RecentEvents(metrics'[n], now - DATA_RETENTION)
                          = RecentEvents(metrics[n], now - DATA_RETENTION)]_vars

\* a cycle's registry block has just removed a bot and kept another with its
\* heartbeat of this instant, while the metric store, which the cycle is
\* about to prune, holds an event of the window
C37_Witness ==
    /\ pc[Pruner] = "pr_lock_met"
    /\ cycleRemoved # {}
    /\ \E n \in DOMAIN bots :
         bots[n].last_heartbeat = now /\ bots[n].heartbeat_history = <<now>>
    /\ \E n \in DOMAIN metrics \ staleNames :
         RecentEvents(metrics[n], now - DATA_RETENTION) # <<>>

\* the registry holds a record of the bot whose last heartbeat, and the last
\* entry of its history, is the heartbeat of this instant
HoldsHeartbeat(b, n) ==
    /\ n \in DOMAIN b
    /\ b[n].last_heartbeat = now
    /\ b[n].heartbeat_history # <<>>
    /\ b[n].heartbeat_history[Len(b[n].heartbeat_history)] = now

\* C38: a heartbeat ingested while a prune cycle runs is not lost, whichever
\* of the handler's log_heartbeat and the pruner's registry block takes the
\* registry first: after the later of the two the registry holds a record of
\* the bot whose history contains the heartbeat and whose last_heartbeat is it.
C38_HeartbeatKept ==
    [][/\ \A t \in Handlers : heartbeat_body(t) => HoldsHeartbeat(bots', arg[t].name)
       /\ pruner_registry_block
            => \A n \in Names : HoldsHeartbeat(bots, n) => HoldsHeartbeat(bots', n)]_vars

\* the pruner's registry block has just trimmed the history of a bot down to
\* the heartbeat of this instant and removed another bot, while the next
\* heartbeat waits for the registry
C38_Witness ==
    /\ pc[Pruner] = "pr_lock_met"
    /\ now = ClockStep
    /\ cycleRemoved # {}
    /\ \E t \in Handlers : pc[t] = "hb_lock"
    /\ \E n \in Names : HoldsHeartbeat(bots, n) /\ hbFiles[n] = <<now>>

\* C39: on a volume that does not fail, a restart gives every bot whose
\* heartbeat file holds a line the heartbeat history it had, with
\* last_heartbeat the last entry of it, gives every bot whose metrics file
\* holds an event the event sequence it had, and gives no registry record to
\* a bot without heartbeat lines, so that a record made by ensure_registered
\* alone is gone.
C39_RestartRoundTrip ==
    [][Restart =>
         \A n \in Names :
            /\ load_lines(hbFiles, n) # <<>> =>
                  /\ n \in DOMAIN bots /\ n \in DOMAIN bots'
                  /\ bots'[n].heartbeat_history = bots[n].heartbeat_history
                  /\ bots'[n].last_heartbeat
                       = bots[n].heartbeat_history[Len(bots[n].heartbeat_history)]
                  /\ bots'[n].last_heartbeat = bots[n].last_heartbeat
            /\ load_lines(mFiles, n) # <<>> =>
                  /\ n \in DOMAIN metrics /\ n \in DOMAIN metrics'
                  /\ metrics'[n] = metrics[n]
            /\ load_lines(hbFiles, n) = <<>> => n \notin DOMAIN bots'
            /\ (n \in DOMAIN bots /\ bots[n].heartbeat_history = <<>>) => n \notin DOMAIN bots']_vars

\* a restart has brought back a bot with two heartbeats of different days and
\* an event, and has not brought back the other bot, which has events only
C39_Witness ==
    /\ ret.op = "restart"
    /\ "bot1" \in DOMAIN bots
    /\ Len(bots["bot1"].heartbeat_history) = 2
    /\ bots["bot1"].heartbeat_history[1] < bots["bot1"].heartbeat_history[2]
    /\ "bot1" \in DOMAIN metrics
    /\ "bot2" \notin DOMAIN bots
    /\ "bot2" \in DOMAIN metrics

\* the step is a call of the method on the channel
Called(op, ch) == ret'.op = op /\ ret'.args = <<ch>>

\* C40: cancel returns true exactly when the channel has a sender, that is
\* when it was registered and not deregistered since; when it returns true
\* the token of the channel's latest register, if it is still held, reports
\* cancelled, and a token that reports cancelled does so ever after; cancel
\* leaves the entry in place, and an entry goes only by deregister, so
\* is_running stays true until then; and cancel changes no watch channel but
\* that of the latest register, so a token of an earlier register is never
\* signalled by it.
C40_CancelSignalsLatest ==
    [][/\ \A ch \in Channels :
            /\ Called("register", ch) => ch \in DOMAIN tokens' /\ tokens'[ch] = Len(watch')
            /\ Called("deregister", ch) => ch \notin DOMAIN tokens'
            /\ (ch \in DOMAIN tokens') # (ch \in DOMAIN tokens)
                  => Called("register", ch) \/ Called("deregister", ch)
            /\ Called("cancel", ch) =>
                  /\ ret'.val = (ch \in DOMAIN tokens)
                  /\ tokens' = tokens
                  /\ Len(watch') = Len(watch)
                  /\ \A i \in 1..Len(watch) :
                        IF ch \in DOMAIN tokens /\ i = tokens[ch]
                        THEN watch[i].receivers > 0 => watch'[i].value
                        ELSE watch'[i] = watch[i]
            /\ Called("is_running", ch) => ret'.val = (ch \in DOMAIN tokens)
       /\ \A i \in 1..Len(watch) :
            /\ watch[i].value => watch'[i].value
            /\ (ret'.op = "is_cancelled" /\ ret'.args = <<i>>)
                  => ret'.val = watch[i].value]_vars

\* a channel was registered twice, cancel has returned true and signalled the
\* token of the second register and not that of the first, both still held,
\* and the channel is still running
C40_Witness ==
    /\ ret = Call("cancel", <<"c1">>, now, TRUE)
    /\ "c1" \in DOMAIN tokens
    /\ tokens["c1"] = 2
    /\ watch[2].value /\ watch[2].receivers > 0
    /\ ~watch[1].value /\ watch[1].receivers > 0

====
